---------------------------- MODULE Spec2Model ----------------------------
(***************************************************************************)
(* A model of src/mitre_parser.py: the name normalizer, the two source     *)
(* matchers (get_mitre_groups, parse_sheet_tab), the reconciler            *)
(* (deduplicate_results), the ranking sort and the report of the main      *)
(* script.                                                                 *)
(*                                                                         *)
(* A Python str is a sequence of Unicode code points (Python's ord(c)), so *)
(* lower-casing, stripping, substring search, slicing and the regular      *)
(* expression of normalize_name are computed character by character.  A    *)
(* value whose Python type the code does not fix (whatever json.loads made *)
(* of the downloaded bundle, and the fields of a result dict copied from   *)
(* it: name, aliases, id) is a record tagged with its type in the field    *)
(* py.  A Python dict is a function whose DOMAIN is its key set, so a      *)
(* missing key is a missing element of the DOMAIN.                         *)
(***************************************************************************)
EXTENDS Integers, Sequences, FiniteSets, TLC

VARIABLES
    pc,             \* position of the running script / of the unit under test
    keyword,        \* user_keyword (main) or the keyword argument
    gid_idx,        \* index into REGION_GIDS of the next tab to scan
    mitre_status,   \* how the structured-feed download ended
    sheet_failed,   \* how many tab downloads failed so far
    mitre_results,  \* mitre_results of main: references into heap
    sheet_results,  \* sheet_results of main: references into heap
    reconciled,     \* what deduplicate_results returned, before the sort
    final_results,  \* final_results of main: references into heap
    ranked,         \* the dicts of final_results after each sort, by value
    report,         \* what lines 191-221 of each pass asked, printed, saved
    heap,           \* the dicts the matchers allocated, by reference (index)
    df,             \* rows of the data frame handed to parse_sheet_tab
    norm            \* argument and results of normalize_name calls

vars ==
    << pc, keyword, gid_idx, mitre_status, sheet_failed, mitre_results,
       sheet_results, reconciled, final_results, ranked, report, heap, df,
       norm >>

---------------------------------------------------------------------------
(* Bounds of the model.                                                    *)

\* longest name handed to normalize_name in the normalizer specification
MaxNameLen ==
    3

\* most objects in one downloaded bundle
MaxObjects ==
    2

\* most rows in one downloaded tab, and most tabular records of a whole scan
MaxSheet ==
    2

\* how many entries of REGION_GIDS the model scans
NumTabs ==
    2

\* most cells in a row of the tabular-matcher specification
MaxCells ==
    2

\* most records in a list handed to the ranking specification
MaxRank ==
    4

\* most reconcile-and-rank passes over the same lists
MaxRuns ==
    2

---------------------------------------------------------------------------
(* Program constants.                                                      *)

\* the [:300] slices of both matchers
DetailLimit ==
    300

\* len(...) > 2 of parse_sheet_tab
MinNameLen ==
    2

\* the [:150] slice of the report
ShownDetails ==
    150

\* the [:5] slice of the report
ShownAliases ==
    5

\* '1H9_xaxQHpWaa4O_Son4Gx0YOIzlcBWMsdvePFX68EKU'
SHEET_ID ==
    << 49, 72, 57, 95, 120, 97, 120, 81, 72, 112, 87, 97, 97, 52, 79, 95, 83,
       111, 110, 52, 71, 120, 48, 89, 79, 73, 122, 108, 99, 66, 87, 77, 115,
       100, 118, 101, 80, 70, 88, 54, 56, 69, 75, 85 >>

\* "361554658", "1636225066", "1905351590", "376438690",
\* "300065512", "2069598202", "574287636", "438782970"
REGION_GIDS ==
    << << 51, 54, 49, 53, 53, 52, 54, 53, 56 >>,
       << 49, 54, 51, 54, 50, 50, 53, 48, 54, 54 >>,
       << 49, 57, 48, 53, 51, 53, 49, 53, 57, 48 >>,
       << 51, 55, 54, 52, 51, 56, 54, 57, 48 >>,
       << 51, 48, 48, 48, 54, 53, 53, 49, 50 >>,
       << 50, 48, 54, 57, 53, 57, 56, 50, 48, 50 >>,
       << 53, 55, 52, 50, 56, 55, 54, 51, 54 >>,
       << 52, 51, 56, 55, 56, 50, 57, 55, 48 >> >>

\* "MITRE ATT&CK"
SOURCE_MITRE ==
    << 77, 73, 84, 82, 69, 32, 65, 84, 84, 38, 67, 75 >>

\* "Google Sheet"
SOURCE_SHEET ==
    << 71, 111, 111, 103, 108, 101, 32, 83, 104, 101, 101, 116 >>

\* "MITRE ATT&CK + Google Sheet"
SOURCE_BOTH ==
    << 77, 73, 84, 82, 69, 32, 65, 84, 84, 38, 67, 75, 32, 43, 32, 71, 111,
       111, 103, 108, 101, 32, 83, 104, 101, 101, 116 >>

\* "MITRE"
LABEL_MITRE ==
    << 77, 73, 84, 82, 69 >>

---------------------------------------------------------------------------
(* str methods on code-point sequences.                                    *)

\* all sequences over S of length at most n
SeqsUpTo(S, n) ==
    UNION { [1..k -> S] : k \in 0..n }

\* the simple lower-case mappings of str.lower(), as runs
\* <<first, last, step, delta>>: first, first + step, ..., last each lower
\* to themselves plus delta
LowerRuns ==
    << <<65, 90, 1, 32>>, <<192, 214, 1, 32>>, <<216, 222, 1, 32>>,
       <<256, 302, 2, 1>>, <<306, 310, 2, 1>>, <<313, 327, 2, 1>>,
       <<330, 374, 2, 1>>, <<376, 376, 1, -121>>, <<377, 381, 2, 1>>,
       <<385, 385, 1, 210>>, <<386, 388, 2, 1>>, <<390, 390, 1, 206>>,
       <<391, 391, 1, 1>>, <<393, 394, 1, 205>>, <<395, 395, 1, 1>>,
       <<398, 398, 1, 79>>, <<399, 399, 1, 202>>, <<400, 400, 1, 203>>,
       <<401, 401, 1, 1>>, <<403, 403, 1, 205>>, <<404, 404, 1, 207>>,
       <<406, 406, 1, 211>>, <<407, 407, 1, 209>>, <<408, 408, 1, 1>>,
       <<412, 412, 1, 211>>, <<413, 413, 1, 213>>, <<415, 415, 1, 214>>,
       <<416, 420, 2, 1>>, <<422, 422, 1, 218>>, <<423, 423, 1, 1>>,
       <<425, 425, 1, 218>>, <<428, 428, 1, 1>>, <<430, 430, 1, 218>>,
       <<431, 431, 1, 1>>, <<433, 434, 1, 217>>, <<435, 437, 2, 1>>,
       <<439, 439, 1, 219>>, <<440, 440, 1, 1>>, <<444, 444, 1, 1>>,
       <<452, 452, 1, 2>>, <<453, 453, 1, 1>>, <<455, 455, 1, 2>>,
       <<456, 456, 1, 1>>, <<458, 458, 1, 2>>, <<459, 475, 2, 1>>,
       <<478, 494, 2, 1>>, <<497, 497, 1, 2>>, <<498, 500, 2, 1>>,
       <<502, 502, 1, -97>>, <<503, 503, 1, -56>>, <<504, 542, 2, 1>>,
       <<544, 544, 1, -130>>, <<546, 562, 2, 1>>, <<570, 570, 1, 10795>>,
       <<571, 571, 1, 1>>, <<573, 573, 1, -163>>, <<574, 574, 1, 10792>>,
       <<577, 577, 1, 1>>, <<579, 579, 1, -195>>, <<580, 580, 1, 69>>,
       <<581, 581, 1, 71>>, <<582, 590, 2, 1>>, <<880, 882, 2, 1>>,
       <<886, 886, 1, 1>>, <<895, 895, 1, 116>>, <<902, 902, 1, 38>>,
       <<904, 906, 1, 37>>, <<908, 908, 1, 64>>, <<910, 911, 1, 63>>,
       <<913, 929, 1, 32>>, <<931, 939, 1, 32>>, <<975, 975, 1, 8>>,
       <<984, 1006, 2, 1>>, <<1012, 1012, 1, -60>>, <<1015, 1015, 1, 1>>,
       <<1017, 1017, 1, -7>>, <<1018, 1018, 1, 1>>, <<1021, 1023, 1, -130>>,
       <<1024, 1039, 1, 80>>, <<1040, 1071, 1, 32>>, <<1120, 1152, 2, 1>>,
       <<1162, 1214, 2, 1>>, <<1216, 1216, 1, 15>>, <<1217, 1229, 2, 1>>,
       <<1232, 1326, 2, 1>>, <<1329, 1366, 1, 48>>, <<4256, 4293, 1, 7264>>,
       <<4295, 4295, 1, 7264>>, <<4301, 4301, 1, 7264>>,
       <<5024, 5103, 1, 38864>>, <<5104, 5109, 1, 8>>,
       <<7312, 7354, 1, -3008>>, <<7357, 7359, 1, -3008>>,
       <<7680, 7828, 2, 1>>, <<7838, 7838, 1, -7615>>, <<7840, 7934, 2, 1>>,
       <<7944, 7951, 1, -8>>, <<7960, 7965, 1, -8>>, <<7976, 7983, 1, -8>>,
       <<7992, 7999, 1, -8>>, <<8008, 8013, 1, -8>>, <<8025, 8031, 2, -8>>,
       <<8040, 8047, 1, -8>>, <<8072, 8079, 1, -8>>, <<8088, 8095, 1, -8>>,
       <<8104, 8111, 1, -8>>, <<8120, 8121, 1, -8>>, <<8122, 8123, 1, -74>>,
       <<8124, 8124, 1, -9>>, <<8136, 8139, 1, -86>>, <<8140, 8140, 1, -9>>,
       <<8152, 8153, 1, -8>>, <<8154, 8155, 1, -100>>, <<8168, 8169, 1, -8>>,
       <<8170, 8171, 1, -112>>, <<8172, 8172, 1, -7>>,
       <<8184, 8185, 1, -128>>, <<8186, 8187, 1, -126>>,
       <<8188, 8188, 1, -9>>, <<8486, 8486, 1, -7517>>,
       <<8490, 8490, 1, -8383>>, <<8491, 8491, 1, -8262>>,
       <<8498, 8498, 1, 28>>, <<8544, 8559, 1, 16>>, <<8579, 8579, 1, 1>>,
       <<9398, 9423, 1, 26>>, <<11264, 11311, 1, 48>>,
       <<11360, 11360, 1, 1>>, <<11362, 11362, 1, -10743>>,
       <<11363, 11363, 1, -3814>>, <<11364, 11364, 1, -10727>>,
       <<11367, 11371, 2, 1>>, <<11373, 11373, 1, -10780>>,
       <<11374, 11374, 1, -10749>>, <<11375, 11375, 1, -10783>>,
       <<11376, 11376, 1, -10782>>, <<11378, 11378, 1, 1>>,
       <<11381, 11381, 1, 1>>, <<11390, 11391, 1, -10815>>,
       <<11392, 11490, 2, 1>>, <<11499, 11501, 2, 1>>,
       <<11506, 11506, 1, 1>>, <<42560, 42604, 2, 1>>,
       <<42624, 42650, 2, 1>>, <<42786, 42798, 2, 1>>,
       <<42802, 42862, 2, 1>>, <<42873, 42875, 2, 1>>,
       <<42877, 42877, 1, -35332>>, <<42878, 42886, 2, 1>>,
       <<42891, 42891, 1, 1>>, <<42893, 42893, 1, -42280>>,
       <<42896, 42898, 2, 1>>, <<42902, 42920, 2, 1>>,
       <<42922, 42922, 1, -42308>>, <<42923, 42923, 1, -42319>>,
       <<42924, 42924, 1, -42315>>, <<42925, 42925, 1, -42305>>,
       <<42926, 42926, 1, -42308>>, <<42928, 42928, 1, -42258>>,
       <<42929, 42929, 1, -42282>>, <<42930, 42930, 1, -42261>>,
       <<42931, 42931, 1, 928>>, <<42932, 42946, 2, 1>>,
       <<42948, 42948, 1, -48>>, <<42949, 42949, 1, -42307>>,
       <<42950, 42950, 1, -35384>>, <<42951, 42953, 2, 1>>,
       <<42960, 42960, 1, 1>>, <<42966, 42968, 2, 1>>,
       <<42997, 42997, 1, 1>>, <<65313, 65338, 1, 32>>,
       <<66560, 66599, 1, 40>>, <<66736, 66771, 1, 40>>,
       <<66928, 66938, 1, 39>>, <<66940, 66954, 1, 39>>,
       <<66956, 66962, 1, 39>>, <<66964, 66965, 1, 39>>,
       <<68736, 68786, 1, 64>>, <<71840, 71871, 1, 32>>,
       <<93760, 93791, 1, 32>>, <<125184, 125217, 1, 34>> >>

\* the characters a capital sigma looks across (case-ignorable), as ranges
\* <<first, last>>
CaseIgnorableRanges ==
    << <<39, 39>>, <<46, 46>>, <<58, 58>>, <<94, 94>>, <<96, 96>>,
       <<168, 168>>, <<173, 173>>, <<175, 175>>, <<180, 180>>, <<183, 184>>,
       <<688, 879>>, <<884, 885>>, <<890, 890>>, <<900, 901>>, <<903, 903>>,
       <<1155, 1161>>, <<1369, 1369>>, <<1375, 1375>>, <<1425, 1469>>,
       <<1471, 1471>>, <<1473, 1474>>, <<1476, 1477>>, <<1479, 1479>>,
       <<1524, 1524>>, <<1536, 1541>>, <<1552, 1562>>, <<1564, 1564>>,
       <<1600, 1600>>, <<1611, 1631>>, <<1648, 1648>>, <<1750, 1757>>,
       <<1759, 1768>>, <<1770, 1773>>, <<1807, 1807>>, <<1809, 1809>>,
       <<1840, 1866>>, <<1958, 1968>>, <<2027, 2037>>, <<2042, 2042>>,
       <<2045, 2045>>, <<2070, 2093>>, <<2137, 2139>>, <<2184, 2184>>,
       <<2192, 2193>>, <<2200, 2207>>, <<2249, 2306>>, <<2362, 2362>>,
       <<2364, 2364>>, <<2369, 2376>>, <<2381, 2381>>, <<2385, 2391>>,
       <<2402, 2403>>, <<2417, 2417>>, <<2433, 2433>>, <<2492, 2492>>,
       <<2497, 2500>>, <<2509, 2509>>, <<2530, 2531>>, <<2558, 2558>>,
       <<2561, 2562>>, <<2620, 2620>>, <<2625, 2626>>, <<2631, 2632>>,
       <<2635, 2637>>, <<2641, 2641>>, <<2672, 2673>>, <<2677, 2677>>,
       <<2689, 2690>>, <<2748, 2748>>, <<2753, 2757>>, <<2759, 2760>>,
       <<2765, 2765>>, <<2786, 2787>>, <<2810, 2815>>, <<2817, 2817>>,
       <<2876, 2876>>, <<2879, 2879>>, <<2881, 2884>>, <<2893, 2893>>,
       <<2901, 2902>>, <<2914, 2915>>, <<2946, 2946>>, <<3008, 3008>>,
       <<3021, 3021>>, <<3072, 3072>>, <<3076, 3076>>, <<3132, 3132>>,
       <<3134, 3136>>, <<3142, 3144>>, <<3146, 3149>>, <<3157, 3158>>,
       <<3170, 3171>>, <<3201, 3201>>, <<3260, 3260>>, <<3263, 3263>>,
       <<3270, 3270>>, <<3276, 3277>>, <<3298, 3299>>, <<3328, 3329>>,
       <<3387, 3388>>, <<3393, 3396>>, <<3405, 3405>>, <<3426, 3427>>,
       <<3457, 3457>>, <<3530, 3530>>, <<3538, 3540>>, <<3542, 3542>>,
       <<3633, 3633>>, <<3636, 3642>>, <<3654, 3662>>, <<3761, 3761>>,
       <<3764, 3772>>, <<3782, 3782>>, <<3784, 3789>>, <<3864, 3865>>,
       <<3893, 3893>>, <<3895, 3895>>, <<3897, 3897>>, <<3953, 3966>>,
       <<3968, 3972>>, <<3974, 3975>>, <<3981, 3991>>, <<3993, 4028>>,
       <<4038, 4038>>, <<4141, 4144>>, <<4146, 4151>>, <<4153, 4154>>,
       <<4157, 4158>>, <<4184, 4185>>, <<4190, 4192>>, <<4209, 4212>>,
       <<4226, 4226>>, <<4229, 4230>>, <<4237, 4237>>, <<4253, 4253>>,
       <<4348, 4348>>, <<4957, 4959>>, <<5906, 5908>>, <<5938, 5939>>,
       <<5970, 5971>>, <<6002, 6003>>, <<6068, 6069>>, <<6071, 6077>>,
       <<6086, 6086>>, <<6089, 6099>>, <<6103, 6103>>, <<6109, 6109>>,
       <<6155, 6159>>, <<6211, 6211>>, <<6277, 6278>>, <<6313, 6313>>,
       <<6432, 6434>>, <<6439, 6440>>, <<6450, 6450>>, <<6457, 6459>>,
       <<6679, 6680>>, <<6683, 6683>>, <<6742, 6742>>, <<6744, 6750>>,
       <<6752, 6752>>, <<6754, 6754>>, <<6757, 6764>>, <<6771, 6780>>,
       <<6783, 6783>>, <<6823, 6823>>, <<6832, 6862>>, <<6912, 6915>>,
       <<6964, 6964>>, <<6966, 6970>>, <<6972, 6972>>, <<6978, 6978>>,
       <<7019, 7027>>, <<7040, 7041>>, <<7074, 7077>>, <<7080, 7081>>,
       <<7083, 7085>>, <<7142, 7142>>, <<7144, 7145>>, <<7149, 7149>>,
       <<7151, 7153>>, <<7212, 7219>>, <<7222, 7223>>, <<7288, 7293>>,
       <<7376, 7378>>, <<7380, 7392>>, <<7394, 7400>>, <<7405, 7405>>,
       <<7412, 7412>>, <<7416, 7417>>, <<7468, 7530>>, <<7544, 7544>>,
       <<7579, 7679>>, <<8125, 8125>>, <<8127, 8129>>, <<8141, 8143>>,
       <<8157, 8159>>, <<8173, 8175>>, <<8189, 8190>>, <<8203, 8207>>,
       <<8216, 8217>>, <<8228, 8228>>, <<8231, 8231>>, <<8234, 8238>>,
       <<8288, 8292>>, <<8294, 8303>>, <<8305, 8305>>, <<8319, 8319>>,
       <<8336, 8348>>, <<8400, 8432>>, <<11388, 11389>>, <<11503, 11505>>,
       <<11631, 11631>>, <<11647, 11647>>, <<11744, 11775>>,
       <<11823, 11823>>, <<12293, 12293>>, <<12330, 12333>>,
       <<12337, 12341>>, <<12347, 12347>>, <<12441, 12446>>,
       <<12540, 12542>>, <<40981, 40981>>, <<42232, 42237>>,
       <<42508, 42508>>, <<42607, 42610>>, <<42612, 42621>>,
       <<42623, 42623>>, <<42652, 42655>>, <<42736, 42737>>,
       <<42752, 42785>>, <<42864, 42864>>, <<42888, 42890>>,
       <<42994, 42996>>, <<43000, 43001>>, <<43010, 43010>>,
       <<43014, 43014>>, <<43019, 43019>>, <<43045, 43046>>,
       <<43052, 43052>>, <<43204, 43205>>, <<43232, 43249>>,
       <<43263, 43263>>, <<43302, 43309>>, <<43335, 43345>>,
       <<43392, 43394>>, <<43443, 43443>>, <<43446, 43449>>,
       <<43452, 43453>>, <<43471, 43471>>, <<43493, 43494>>,
       <<43561, 43566>>, <<43569, 43570>>, <<43573, 43574>>,
       <<43587, 43587>>, <<43596, 43596>>, <<43632, 43632>>,
       <<43644, 43644>>, <<43696, 43696>>, <<43698, 43700>>,
       <<43703, 43704>>, <<43710, 43711>>, <<43713, 43713>>,
       <<43741, 43741>>, <<43756, 43757>>, <<43763, 43764>>,
       <<43766, 43766>>, <<43867, 43871>>, <<43881, 43883>>,
       <<44005, 44005>>, <<44008, 44008>>, <<44013, 44013>>,
       <<64286, 64286>>, <<64434, 64450>>, <<65024, 65039>>,
       <<65043, 65043>>, <<65056, 65071>>, <<65106, 65106>>,
       <<65109, 65109>>, <<65279, 65279>>, <<65287, 65287>>,
       <<65294, 65294>>, <<65306, 65306>>, <<65342, 65342>>,
       <<65344, 65344>>, <<65392, 65392>>, <<65438, 65439>>,
       <<65507, 65507>>, <<65529, 65531>>, <<66045, 66045>>,
       <<66272, 66272>>, <<66422, 66426>>, <<67456, 67461>>,
       <<67463, 67504>>, <<67506, 67514>>, <<68097, 68099>>,
       <<68101, 68102>>, <<68108, 68111>>, <<68152, 68154>>,
       <<68159, 68159>>, <<68325, 68326>>, <<68900, 68903>>,
       <<69291, 69292>>, <<69446, 69456>>, <<69506, 69509>>,
       <<69633, 69633>>, <<69688, 69702>>, <<69744, 69744>>,
       <<69747, 69748>>, <<69759, 69761>>, <<69811, 69814>>,
       <<69817, 69818>>, <<69821, 69821>>, <<69826, 69826>>,
       <<69837, 69837>>, <<69888, 69890>>, <<69927, 69931>>,
       <<69933, 69940>>, <<70003, 70003>>, <<70016, 70017>>,
       <<70070, 70078>>, <<70089, 70092>>, <<70095, 70095>>,
       <<70191, 70193>>, <<70196, 70196>>, <<70198, 70199>>,
       <<70206, 70206>>, <<70367, 70367>>, <<70371, 70378>>,
       <<70400, 70401>>, <<70459, 70460>>, <<70464, 70464>>,
       <<70502, 70508>>, <<70512, 70516>>, <<70712, 70719>>,
       <<70722, 70724>>, <<70726, 70726>>, <<70750, 70750>>,
       <<70835, 70840>>, <<70842, 70842>>, <<70847, 70848>>,
       <<70850, 70851>>, <<71090, 71093>>, <<71100, 71101>>,
       <<71103, 71104>>, <<71132, 71133>>, <<71219, 71226>>,
       <<71229, 71229>>, <<71231, 71232>>, <<71339, 71339>>,
       <<71341, 71341>>, <<71344, 71349>>, <<71351, 71351>>,
       <<71453, 71455>>, <<71458, 71461>>, <<71463, 71467>>,
       <<71727, 71735>>, <<71737, 71738>>, <<71995, 71996>>,
       <<71998, 71998>>, <<72003, 72003>>, <<72148, 72151>>,
       <<72154, 72155>>, <<72160, 72160>>, <<72193, 72202>>,
       <<72243, 72248>>, <<72251, 72254>>, <<72263, 72263>>,
       <<72273, 72278>>, <<72281, 72283>>, <<72330, 72342>>,
       <<72344, 72345>>, <<72752, 72758>>, <<72760, 72765>>,
       <<72767, 72767>>, <<72850, 72871>>, <<72874, 72880>>,
       <<72882, 72883>>, <<72885, 72886>>, <<73009, 73014>>,
       <<73018, 73018>>, <<73020, 73021>>, <<73023, 73029>>,
       <<73031, 73031>>, <<73104, 73105>>, <<73109, 73109>>,
       <<73111, 73111>>, <<73459, 73460>>, <<78896, 78904>>,
       <<92912, 92916>>, <<92976, 92982>>, <<92992, 92995>>,
       <<94031, 94031>>, <<94095, 94111>>, <<94176, 94177>>,
       <<94179, 94180>>, <<110576, 110579>>, <<110581, 110587>>,
       <<110589, 110590>>, <<113821, 113822>>, <<113824, 113827>>,
       <<118528, 118573>>, <<118576, 118598>>, <<119143, 119145>>,
       <<119155, 119170>>, <<119173, 119179>>, <<119210, 119213>>,
       <<119362, 119364>>, <<121344, 121398>>, <<121403, 121452>>,
       <<121461, 121461>>, <<121476, 121476>>, <<121499, 121503>>,
       <<121505, 121519>>, <<122880, 122886>>, <<122888, 122904>>,
       <<122907, 122913>>, <<122915, 122916>>, <<122918, 122922>>,
       <<123184, 123197>>, <<123566, 123566>>, <<123628, 123631>>,
       <<125136, 125142>>, <<125252, 125259>>, <<127995, 127999>>,
       <<917505, 917505>>, <<917536, 917631>>, <<917760, 917999>> >>

\* the cased characters that are not case-ignorable, as ranges <<first, last>>
CasedRanges ==
    << <<65, 90>>, <<97, 122>>, <<170, 170>>, <<181, 181>>, <<186, 186>>,
       <<192, 214>>, <<216, 246>>, <<248, 442>>, <<444, 447>>, <<452, 659>>,
       <<661, 687>>, <<880, 883>>, <<886, 887>>, <<891, 893>>, <<895, 895>>,
       <<902, 902>>, <<904, 906>>, <<908, 908>>, <<910, 929>>, <<931, 1013>>,
       <<1015, 1153>>, <<1162, 1327>>, <<1329, 1366>>, <<1376, 1416>>,
       <<4256, 4293>>, <<4295, 4295>>, <<4301, 4301>>, <<4304, 4346>>,
       <<4349, 4351>>, <<5024, 5109>>, <<5112, 5117>>, <<7296, 7304>>,
       <<7312, 7354>>, <<7357, 7359>>, <<7424, 7467>>, <<7531, 7543>>,
       <<7545, 7578>>, <<7680, 7957>>, <<7960, 7965>>, <<7968, 8005>>,
       <<8008, 8013>>, <<8016, 8023>>, <<8025, 8025>>, <<8027, 8027>>,
       <<8029, 8029>>, <<8031, 8061>>, <<8064, 8116>>, <<8118, 8124>>,
       <<8126, 8126>>, <<8130, 8132>>, <<8134, 8140>>, <<8144, 8147>>,
       <<8150, 8155>>, <<8160, 8172>>, <<8178, 8180>>, <<8182, 8188>>,
       <<8450, 8450>>, <<8455, 8455>>, <<8458, 8467>>, <<8469, 8469>>,
       <<8473, 8477>>, <<8484, 8484>>, <<8486, 8486>>, <<8488, 8488>>,
       <<8490, 8493>>, <<8495, 8500>>, <<8505, 8505>>, <<8508, 8511>>,
       <<8517, 8521>>, <<8526, 8526>>, <<8544, 8575>>, <<8579, 8580>>,
       <<9398, 9449>>, <<11264, 11387>>, <<11390, 11492>>, <<11499, 11502>>,
       <<11506, 11507>>, <<11520, 11557>>, <<11559, 11559>>,
       <<11565, 11565>>, <<42560, 42605>>, <<42624, 42651>>,
       <<42786, 42863>>, <<42865, 42887>>, <<42891, 42894>>,
       <<42896, 42954>>, <<42960, 42961>>, <<42963, 42963>>,
       <<42965, 42969>>, <<42997, 42998>>, <<43002, 43002>>,
       <<43824, 43866>>, <<43872, 43880>>, <<43888, 43967>>,
       <<64256, 64262>>, <<64275, 64279>>, <<65313, 65338>>,
       <<65345, 65370>>, <<66560, 66639>>, <<66736, 66771>>,
       <<66776, 66811>>, <<66928, 66938>>, <<66940, 66954>>,
       <<66956, 66962>>, <<66964, 66965>>, <<66967, 66977>>,
       <<66979, 66993>>, <<66995, 67001>>, <<67003, 67004>>,
       <<68736, 68786>>, <<68800, 68850>>, <<71840, 71903>>,
       <<93760, 93823>>, <<119808, 119892>>, <<119894, 119964>>,
       <<119966, 119967>>, <<119970, 119970>>, <<119973, 119974>>,
       <<119977, 119980>>, <<119982, 119993>>, <<119995, 119995>>,
       <<119997, 120003>>, <<120005, 120069>>, <<120071, 120074>>,
       <<120077, 120084>>, <<120086, 120092>>, <<120094, 120121>>,
       <<120123, 120126>>, <<120128, 120132>>, <<120134, 120134>>,
       <<120138, 120144>>, <<120146, 120485>>, <<120488, 120512>>,
       <<120514, 120538>>, <<120540, 120570>>, <<120572, 120596>>,
       <<120598, 120628>>, <<120630, 120654>>, <<120656, 120686>>,
       <<120688, 120712>>, <<120714, 120744>>, <<120746, 120770>>,
       <<120772, 120779>>, <<122624, 122633>>, <<122635, 122654>>,
       <<125184, 125251>>, <<127280, 127305>>, <<127312, 127337>>,
       <<127344, 127369>> >>

\* c lies in one of the ranges
InRanges(c, ranges) ==
    \E k \in 1..Len(ranges) : ranges[k][1] <= c /\ c <= ranges[k][2]

\* c.lower() for the one-character string c: U+0130 lowers to two code
\* points, every other character to one
LowerChar(c) ==
    IF c < 128 THEN << IF c >= 65 /\ c <= 90 THEN c + 32 ELSE c >>
    ELSE IF c = 304 THEN << 105, 775 >>
    ELSE LET hit == { k \in 1..Len(LowerRuns) :
                        /\ LowerRuns[k][1] <= c
                        /\ c <= LowerRuns[k][2]
                        /\ (c - LowerRuns[k][1]) % LowerRuns[k][3] = 0 }
         IN  IF hit = {} THEN << c >>
             ELSE << c + LowerRuns[CHOOSE k \in hit : TRUE][4] >>

\* the nearest character before s[i] that is not case-ignorable is cased
CasedBefore(s, i) ==
    \E j \in 1..(i - 1) :
        /\ ~InRanges(s[j], CaseIgnorableRanges)
        /\ InRanges(s[j], CasedRanges)
        /\ \A k \in (j + 1)..(i - 1) : InRanges(s[k], CaseIgnorableRanges)

\* the nearest character after s[i] that is not case-ignorable is cased
CasedAfter(s, i) ==
    \E j \in (i + 1)..Len(s) :
        /\ ~InRanges(s[j], CaseIgnorableRanges)
        /\ InRanges(s[j], CasedRanges)
        /\ \A k \in (i + 1)..(j - 1) : InRanges(s[k], CaseIgnorableRanges)

\* what s[i] becomes in s.lower(): a capital sigma (U+03A3) at the end of a
\* word lowers to the final sigma (U+03C2), elsewhere to U+03C3
LowerAt(s, i) ==
    IF s[i] = 931
    THEN << IF CasedBefore(s, i) /\ ~CasedAfter(s, i) THEN 962 ELSE 963 >>
    ELSE LowerChar(s[i])

\* s.lower(): the lower-case forms of the characters of s one after another.
\* Every character but U+0130 gives one character, so the k-th character of
\* the result comes from the i-th of s, i being k less the number of U+0130
\* before it.
Lower(s) ==
    IF \A i \in 1..Len(s) : s[i] # 304
    THEN [k \in 1..Len(s) |-> LowerAt(s, k)[1]]
    ELSE LET first(i) == i + Cardinality({ j \in 1..(i - 1) : s[j] = 304 })
             total == first(Len(s) + 1) - 1
         IN  [k \in 1..total |->
                LET i == CHOOSE i \in 1..Len(s) :
                             first(i) <= k /\ k < first(i + 1)
                IN  LowerAt(s, i)[k - first(i) + 1]]

\* the characters str.strip() removes (str.isspace)
IsSpace(c) ==
    \/ c \in {9, 10, 11, 12, 13, 28, 29, 30, 31, 32, 133, 160}
    \/ c \in {5760, 8232, 8233, 8239, 8287, 12288}
    \/ (c >= 8192 /\ c <= 8202)

\* s.strip()
Strip(s) ==
    LET keep == { i \in 1..Len(s) : ~IsSpace(s[i]) }
    IN  IF keep = {} THEN << >>
        ELSE LET lo == CHOOSE i \in keep : \A j \in keep : i <= j
                 hi == CHOOSE i \in keep : \A j \in keep : j <= i
             IN  SubSeq(s, lo, hi)

\* needle in hay
Contains(hay, needle) ==
    \E i \in 0..(Len(hay) - Len(needle)) :
        SubSeq(hay, i + 1, i + Len(needle)) = needle

\* s[:n]
Take(s, n) ==
    SubSeq(s, 1, IF Len(s) < n THEN Len(s) ELSE n)

\* s.replace('\n', ' ')
ReplaceNewline(s) ==
    [i \in 1..Len(s) |-> IF s[i] = 10 THEN 32 ELSE s[i]]

\* x in lst
InList(x, lst) ==
    \E k \in 1..Len(lst) : lst[k] = x

RECURSIVE ConcatRange(_, _, _)
\* parts[lo] + ... + parts[hi], computed by halves
ConcatRange(parts, lo, hi) ==
    IF lo > hi THEN << >>
    ELSE IF lo = hi THEN parts[lo]
    ELSE LET mid == (lo + hi) \div 2
         IN  ConcatRange(parts, lo, mid) \o ConcatRange(parts, mid + 1, hi)

\* ''.join(parts)
Concat(parts) ==
    ConcatRange(parts, 1, Len(parts))

\* sep.join(parts)
Join(sep, parts) ==
    Concat([k \in 1..Len(parts) |->
              IF k = 1 THEN parts[k] ELSE sep \o parts[k]])

RECURSIVE Digits(_)
\* str(n) for n >= 0
Digits(n) ==
    IF n < 10 THEN << 48 + n >>
    ELSE Digits(n \div 10) \o << 48 + (n % 10) >>

\* str(n)
IntStr(n) ==
    IF n < 0 THEN << 45 >> \o Digits(0 - n) ELSE Digits(n)

\* d.get(k, default)
Get(d, k, default) ==
    IF k \in DOMAIN d THEN d[k] ELSE default

\* d[k] = v
SetKey(d, k, v) ==
    [f \in (DOMAIN d) \cup {k} |-> IF f = k THEN v ELSE d[f]]

---------------------------------------------------------------------------
(* Python values of any type: what json.loads gives.                       *)

\* None
PyNone ==
    [py |-> "NoneType"]

\* True, False
PyBool(b) ==
    [py |-> "bool", b |-> b]

\* an int
PyInt(n) ==
    [py |-> "int", n |-> n]

\* a float, held by the text repr gives for it: '1.5', '1e+22', 'inf', 'nan'
PyFloat(r) ==
    [py |-> "float", r |-> r]

\* a str
PyStr(s) ==
    [py |-> "str", s |-> s]

\* a list
PyList(items) ==
    [py |-> "list", items |-> items]

\* a dict with str keys: its (key, value) pairs in insertion order
PyDict(pairs) ==
    [py |-> "dict", pairs |-> pairs]

\* k in d
PyHas(d, k) ==
    \E i \in 1..Len(d.pairs) : d.pairs[i][1] = k

\* d.get(k, default)
PyGet(d, k, default) ==
    IF PyHas(d, k)
    THEN d.pairs[CHOOSE i \in 1..Len(d.pairs) : d.pairs[i][1] = k][2]
    ELSE default

\* list(d): the keys of d
PyKeys(d) ==
    [i \in 1..Len(d.pairs) |-> d.pairs[i][1]]

\* bool(v): what `if v` and `not v` test
Truthy(v) ==
    CASE v.py = "NoneType" -> FALSE
      [] v.py = "bool" -> v.b
      [] v.py = "int" -> v.n # 0
      [] v.py = "float" -> v.r \notin { << 48, 46, 48 >>, << 45, 48, 46, 48 >> }
      [] v.py = "str" -> v.s # << >>
      [] v.py = "list" -> v.items # << >>
      [] v.py = "dict" -> v.pairs # << >>

\* `for x in v` raises TypeError: v is not iterable
NotIterable(v) ==
    v.py \in {"NoneType", "bool", "int", "float"}

\* `for x in v` yields str values: the characters of a str, the keys of a dict
YieldsStr(v) ==
    v.py \in {"str", "dict"}

---------------------------------------------------------------------------
(* repr and str of a value.                                                *)

\* the characters of code 128 and above that str.isprintable rejects, as
\* ranges <<first, last>>
NonPrintableRanges ==
    << <<128, 160>>, <<173, 173>>, <<888, 889>>, <<896, 899>>, <<907, 907>>,
       <<909, 909>>, <<930, 930>>, <<1328, 1328>>, <<1367, 1368>>,
       <<1419, 1420>>, <<1424, 1424>>, <<1480, 1487>>, <<1515, 1518>>,
       <<1525, 1541>>, <<1564, 1564>>, <<1757, 1757>>, <<1806, 1807>>,
       <<1867, 1868>>, <<1970, 1983>>, <<2043, 2044>>, <<2094, 2095>>,
       <<2111, 2111>>, <<2140, 2141>>, <<2143, 2143>>, <<2155, 2159>>,
       <<2191, 2199>>, <<2274, 2274>>, <<2436, 2436>>, <<2445, 2446>>,
       <<2449, 2450>>, <<2473, 2473>>, <<2481, 2481>>, <<2483, 2485>>,
       <<2490, 2491>>, <<2501, 2502>>, <<2505, 2506>>, <<2511, 2518>>,
       <<2520, 2523>>, <<2526, 2526>>, <<2532, 2533>>, <<2559, 2560>>,
       <<2564, 2564>>, <<2571, 2574>>, <<2577, 2578>>, <<2601, 2601>>,
       <<2609, 2609>>, <<2612, 2612>>, <<2615, 2615>>, <<2618, 2619>>,
       <<2621, 2621>>, <<2627, 2630>>, <<2633, 2634>>, <<2638, 2640>>,
       <<2642, 2648>>, <<2653, 2653>>, <<2655, 2661>>, <<2679, 2688>>,
       <<2692, 2692>>, <<2702, 2702>>, <<2706, 2706>>, <<2729, 2729>>,
       <<2737, 2737>>, <<2740, 2740>>, <<2746, 2747>>, <<2758, 2758>>,
       <<2762, 2762>>, <<2766, 2767>>, <<2769, 2783>>, <<2788, 2789>>,
       <<2802, 2808>>, <<2816, 2816>>, <<2820, 2820>>, <<2829, 2830>>,
       <<2833, 2834>>, <<2857, 2857>>, <<2865, 2865>>, <<2868, 2868>>,
       <<2874, 2875>>, <<2885, 2886>>, <<2889, 2890>>, <<2894, 2900>>,
       <<2904, 2907>>, <<2910, 2910>>, <<2916, 2917>>, <<2936, 2945>>,
       <<2948, 2948>>, <<2955, 2957>>, <<2961, 2961>>, <<2966, 2968>>,
       <<2971, 2971>>, <<2973, 2973>>, <<2976, 2978>>, <<2981, 2983>>,
       <<2987, 2989>>, <<3002, 3005>>, <<3011, 3013>>, <<3017, 3017>>,
       <<3022, 3023>>, <<3025, 3030>>, <<3032, 3045>>, <<3067, 3071>>,
       <<3085, 3085>>, <<3089, 3089>>, <<3113, 3113>>, <<3130, 3131>>,
       <<3141, 3141>>, <<3145, 3145>>, <<3150, 3156>>, <<3159, 3159>>,
       <<3163, 3164>>, <<3166, 3167>>, <<3172, 3173>>, <<3184, 3190>>,
       <<3213, 3213>>, <<3217, 3217>>, <<3241, 3241>>, <<3252, 3252>>,
       <<3258, 3259>>, <<3269, 3269>>, <<3273, 3273>>, <<3278, 3284>>,
       <<3287, 3292>>, <<3295, 3295>>, <<3300, 3301>>, <<3312, 3312>>,
       <<3315, 3327>>, <<3341, 3341>>, <<3345, 3345>>, <<3397, 3397>>,
       <<3401, 3401>>, <<3408, 3411>>, <<3428, 3429>>, <<3456, 3456>>,
       <<3460, 3460>>, <<3479, 3481>>, <<3506, 3506>>, <<3516, 3516>>,
       <<3518, 3519>>, <<3527, 3529>>, <<3531, 3534>>, <<3541, 3541>>,
       <<3543, 3543>>, <<3552, 3557>>, <<3568, 3569>>, <<3573, 3584>>,
       <<3643, 3646>>, <<3676, 3712>>, <<3715, 3715>>, <<3717, 3717>>,
       <<3723, 3723>>, <<3748, 3748>>, <<3750, 3750>>, <<3774, 3775>>,
       <<3781, 3781>>, <<3783, 3783>>, <<3790, 3791>>, <<3802, 3803>>,
       <<3808, 3839>>, <<3912, 3912>>, <<3949, 3952>>, <<3992, 3992>>,
       <<4029, 4029>>, <<4045, 4045>>, <<4059, 4095>>, <<4294, 4294>>,
       <<4296, 4300>>, <<4302, 4303>>, <<4681, 4681>>, <<4686, 4687>>,
       <<4695, 4695>>, <<4697, 4697>>, <<4702, 4703>>, <<4745, 4745>>,
       <<4750, 4751>>, <<4785, 4785>>, <<4790, 4791>>, <<4799, 4799>>,
       <<4801, 4801>>, <<4806, 4807>>, <<4823, 4823>>, <<4881, 4881>>,
       <<4886, 4887>>, <<4955, 4956>>, <<4989, 4991>>, <<5018, 5023>>,
       <<5110, 5111>>, <<5118, 5119>>, <<5760, 5760>>, <<5789, 5791>>,
       <<5881, 5887>>, <<5910, 5918>>, <<5943, 5951>>, <<5972, 5983>>,
       <<5997, 5997>>, <<6001, 6001>>, <<6004, 6015>>, <<6110, 6111>>,
       <<6122, 6127>>, <<6138, 6143>>, <<6158, 6158>>, <<6170, 6175>>,
       <<6265, 6271>>, <<6315, 6319>>, <<6390, 6399>>, <<6431, 6431>>,
       <<6444, 6447>>, <<6460, 6463>>, <<6465, 6467>>, <<6510, 6511>>,
       <<6517, 6527>>, <<6572, 6575>>, <<6602, 6607>>, <<6619, 6621>>,
       <<6684, 6685>>, <<6751, 6751>>, <<6781, 6782>>, <<6794, 6799>>,
       <<6810, 6815>>, <<6830, 6831>>, <<6863, 6911>>, <<6989, 6991>>,
       <<7039, 7039>>, <<7156, 7163>>, <<7224, 7226>>, <<7242, 7244>>,
       <<7305, 7311>>, <<7355, 7356>>, <<7368, 7375>>, <<7419, 7423>>,
       <<7958, 7959>>, <<7966, 7967>>, <<8006, 8007>>, <<8014, 8015>>,
       <<8024, 8024>>, <<8026, 8026>>, <<8028, 8028>>, <<8030, 8030>>,
       <<8062, 8063>>, <<8117, 8117>>, <<8133, 8133>>, <<8148, 8149>>,
       <<8156, 8156>>, <<8176, 8177>>, <<8181, 8181>>, <<8191, 8207>>,
       <<8232, 8239>>, <<8287, 8303>>, <<8306, 8307>>, <<8335, 8335>>,
       <<8349, 8351>>, <<8385, 8399>>, <<8433, 8447>>, <<8588, 8591>>,
       <<9255, 9279>>, <<9291, 9311>>, <<11124, 11125>>, <<11158, 11158>>,
       <<11508, 11512>>, <<11558, 11558>>, <<11560, 11564>>,
       <<11566, 11567>>, <<11624, 11630>>, <<11633, 11646>>,
       <<11671, 11679>>, <<11687, 11687>>, <<11695, 11695>>,
       <<11703, 11703>>, <<11711, 11711>>, <<11719, 11719>>,
       <<11727, 11727>>, <<11735, 11735>>, <<11743, 11743>>,
       <<11870, 11903>>, <<11930, 11930>>, <<12020, 12031>>,
       <<12246, 12271>>, <<12284, 12288>>, <<12352, 12352>>,
       <<12439, 12440>>, <<12544, 12548>>, <<12592, 12592>>,
       <<12687, 12687>>, <<12772, 12783>>, <<12831, 12831>>,
       <<42125, 42127>>, <<42183, 42191>>, <<42540, 42559>>,
       <<42744, 42751>>, <<42955, 42959>>, <<42962, 42962>>,
       <<42964, 42964>>, <<42970, 42993>>, <<43053, 43055>>,
       <<43066, 43071>>, <<43128, 43135>>, <<43206, 43213>>,
       <<43226, 43231>>, <<43348, 43358>>, <<43389, 43391>>,
       <<43470, 43470>>, <<43482, 43485>>, <<43519, 43519>>,
       <<43575, 43583>>, <<43598, 43599>>, <<43610, 43611>>,
       <<43715, 43738>>, <<43767, 43776>>, <<43783, 43784>>,
       <<43791, 43792>>, <<43799, 43807>>, <<43815, 43815>>,
       <<43823, 43823>>, <<43884, 43887>>, <<44014, 44015>>,
       <<44026, 44031>>, <<55204, 55215>>, <<55239, 55242>>,
       <<55292, 63743>>, <<64110, 64111>>, <<64218, 64255>>,
       <<64263, 64274>>, <<64280, 64284>>, <<64311, 64311>>,
       <<64317, 64317>>, <<64319, 64319>>, <<64322, 64322>>,
       <<64325, 64325>>, <<64451, 64466>>, <<64912, 64913>>,
       <<64968, 64974>>, <<64976, 65007>>, <<65050, 65055>>,
       <<65107, 65107>>, <<65127, 65127>>, <<65132, 65135>>,
       <<65141, 65141>>, <<65277, 65280>>, <<65471, 65473>>,
       <<65480, 65481>>, <<65488, 65489>>, <<65496, 65497>>,
       <<65501, 65503>>, <<65511, 65511>>, <<65519, 65531>>,
       <<65534, 65535>>, <<65548, 65548>>, <<65575, 65575>>,
       <<65595, 65595>>, <<65598, 65598>>, <<65614, 65615>>,
       <<65630, 65663>>, <<65787, 65791>>, <<65795, 65798>>,
       <<65844, 65846>>, <<65935, 65935>>, <<65949, 65951>>,
       <<65953, 65999>>, <<66046, 66175>>, <<66205, 66207>>,
       <<66257, 66271>>, <<66300, 66303>>, <<66340, 66348>>,
       <<66379, 66383>>, <<66427, 66431>>, <<66462, 66462>>,
       <<66500, 66503>>, <<66518, 66559>>, <<66718, 66719>>,
       <<66730, 66735>>, <<66772, 66775>>, <<66812, 66815>>,
       <<66856, 66863>>, <<66916, 66926>>, <<66939, 66939>>,
       <<66955, 66955>>, <<66963, 66963>>, <<66966, 66966>>,
       <<66978, 66978>>, <<66994, 66994>>, <<67002, 67002>>,
       <<67005, 67071>>, <<67383, 67391>>, <<67414, 67423>>,
       <<67432, 67455>>, <<67462, 67462>>, <<67505, 67505>>,
       <<67515, 67583>>, <<67590, 67591>>, <<67593, 67593>>,
       <<67638, 67638>>, <<67641, 67643>>, <<67645, 67646>>,
       <<67670, 67670>>, <<67743, 67750>>, <<67760, 67807>>,
       <<67827, 67827>>, <<67830, 67834>>, <<67868, 67870>>,
       <<67898, 67902>>, <<67904, 67967>>, <<68024, 68027>>,
       <<68048, 68049>>, <<68100, 68100>>, <<68103, 68107>>,
       <<68116, 68116>>, <<68120, 68120>>, <<68150, 68151>>,
       <<68155, 68158>>, <<68169, 68175>>, <<68185, 68191>>,
       <<68256, 68287>>, <<68327, 68330>>, <<68343, 68351>>,
       <<68406, 68408>>, <<68438, 68439>>, <<68467, 68471>>,
       <<68498, 68504>>, <<68509, 68520>>, <<68528, 68607>>,
       <<68681, 68735>>, <<68787, 68799>>, <<68851, 68857>>,
       <<68904, 68911>>, <<68922, 69215>>, <<69247, 69247>>,
       <<69290, 69290>>, <<69294, 69295>>, <<69298, 69375>>,
       <<69416, 69423>>, <<69466, 69487>>, <<69514, 69551>>,
       <<69580, 69599>>, <<69623, 69631>>, <<69710, 69713>>,
       <<69750, 69758>>, <<69821, 69821>>, <<69827, 69839>>,
       <<69865, 69871>>, <<69882, 69887>>, <<69941, 69941>>,
       <<69960, 69967>>, <<70007, 70015>>, <<70112, 70112>>,
       <<70133, 70143>>, <<70162, 70162>>, <<70207, 70271>>,
       <<70279, 70279>>, <<70281, 70281>>, <<70286, 70286>>,
       <<70302, 70302>>, <<70314, 70319>>, <<70379, 70383>>,
       <<70394, 70399>>, <<70404, 70404>>, <<70413, 70414>>,
       <<70417, 70418>>, <<70441, 70441>>, <<70449, 70449>>,
       <<70452, 70452>>, <<70458, 70458>>, <<70469, 70470>>,
       <<70473, 70474>>, <<70478, 70479>>, <<70481, 70486>>,
       <<70488, 70492>>, <<70500, 70501>>, <<70509, 70511>>,
       <<70517, 70655>>, <<70748, 70748>>, <<70754, 70783>>,
       <<70856, 70863>>, <<70874, 71039>>, <<71094, 71095>>,
       <<71134, 71167>>, <<71237, 71247>>, <<71258, 71263>>,
       <<71277, 71295>>, <<71354, 71359>>, <<71370, 71423>>,
       <<71451, 71452>>, <<71468, 71471>>, <<71495, 71679>>,
       <<71740, 71839>>, <<71923, 71934>>, <<71943, 71944>>,
       <<71946, 71947>>, <<71956, 71956>>, <<71959, 71959>>,
       <<71990, 71990>>, <<71993, 71994>>, <<72007, 72015>>,
       <<72026, 72095>>, <<72104, 72105>>, <<72152, 72153>>,
       <<72165, 72191>>, <<72264, 72271>>, <<72355, 72367>>,
       <<72441, 72703>>, <<72713, 72713>>, <<72759, 72759>>,
       <<72774, 72783>>, <<72813, 72815>>, <<72848, 72849>>,
       <<72872, 72872>>, <<72887, 72959>>, <<72967, 72967>>,
       <<72970, 72970>>, <<73015, 73017>>, <<73019, 73019>>,
       <<73022, 73022>>, <<73032, 73039>>, <<73050, 73055>>,
       <<73062, 73062>>, <<73065, 73065>>, <<73103, 73103>>,
       <<73106, 73106>>, <<73113, 73119>>, <<73130, 73439>>,
       <<73465, 73647>>, <<73649, 73663>>, <<73714, 73726>>,
       <<74650, 74751>>, <<74863, 74863>>, <<74869, 74879>>,
       <<75076, 77711>>, <<77811, 77823>>, <<78895, 82943>>,
       <<83527, 92159>>, <<92729, 92735>>, <<92767, 92767>>,
       <<92778, 92781>>, <<92863, 92863>>, <<92874, 92879>>,
       <<92910, 92911>>, <<92918, 92927>>, <<92998, 93007>>,
       <<93018, 93018>>, <<93026, 93026>>, <<93048, 93052>>,
       <<93072, 93759>>, <<93851, 93951>>, <<94027, 94030>>,
       <<94088, 94094>>, <<94112, 94175>>, <<94181, 94191>>,
       <<94194, 94207>>, <<100344, 100351>>, <<101590, 101631>>,
       <<101641, 110575>>, <<110580, 110580>>, <<110588, 110588>>,
       <<110591, 110591>>, <<110883, 110927>>, <<110931, 110947>>,
       <<110952, 110959>>, <<111356, 113663>>, <<113771, 113775>>,
       <<113789, 113791>>, <<113801, 113807>>, <<113818, 113819>>,
       <<113824, 118527>>, <<118574, 118575>>, <<118599, 118607>>,
       <<118724, 118783>>, <<119030, 119039>>, <<119079, 119080>>,
       <<119155, 119162>>, <<119275, 119295>>, <<119366, 119519>>,
       <<119540, 119551>>, <<119639, 119647>>, <<119673, 119807>>,
       <<119893, 119893>>, <<119965, 119965>>, <<119968, 119969>>,
       <<119971, 119972>>, <<119975, 119976>>, <<119981, 119981>>,
       <<119994, 119994>>, <<119996, 119996>>, <<120004, 120004>>,
       <<120070, 120070>>, <<120075, 120076>>, <<120085, 120085>>,
       <<120093, 120093>>, <<120122, 120122>>, <<120127, 120127>>,
       <<120133, 120133>>, <<120135, 120137>>, <<120145, 120145>>,
       <<120486, 120487>>, <<120780, 120781>>, <<121484, 121498>>,
       <<121504, 121504>>, <<121520, 122623>>, <<122655, 122879>>,
       <<122887, 122887>>, <<122905, 122906>>, <<122914, 122914>>,
       <<122917, 122917>>, <<122923, 123135>>, <<123181, 123183>>,
       <<123198, 123199>>, <<123210, 123213>>, <<123216, 123535>>,
       <<123567, 123583>>, <<123642, 123646>>, <<123648, 124895>>,
       <<124903, 124903>>, <<124908, 124908>>, <<124911, 124911>>,
       <<124927, 124927>>, <<125125, 125126>>, <<125143, 125183>>,
       <<125260, 125263>>, <<125274, 125277>>, <<125280, 126064>>,
       <<126133, 126208>>, <<126270, 126463>>, <<126468, 126468>>,
       <<126496, 126496>>, <<126499, 126499>>, <<126501, 126502>>,
       <<126504, 126504>>, <<126515, 126515>>, <<126520, 126520>>,
       <<126522, 126522>>, <<126524, 126529>>, <<126531, 126534>>,
       <<126536, 126536>>, <<126538, 126538>>, <<126540, 126540>>,
       <<126544, 126544>>, <<126547, 126547>>, <<126549, 126550>>,
       <<126552, 126552>>, <<126554, 126554>>, <<126556, 126556>>,
       <<126558, 126558>>, <<126560, 126560>>, <<126563, 126563>>,
       <<126565, 126566>>, <<126571, 126571>>, <<126579, 126579>>,
       <<126584, 126584>>, <<126589, 126589>>, <<126591, 126591>>,
       <<126602, 126602>>, <<126620, 126624>>, <<126628, 126628>>,
       <<126634, 126634>>, <<126652, 126703>>, <<126706, 126975>>,
       <<127020, 127023>>, <<127124, 127135>>, <<127151, 127152>>,
       <<127168, 127168>>, <<127184, 127184>>, <<127222, 127231>>,
       <<127406, 127461>>, <<127491, 127503>>, <<127548, 127551>>,
       <<127561, 127567>>, <<127570, 127583>>, <<127590, 127743>>,
       <<128728, 128732>>, <<128749, 128751>>, <<128765, 128767>>,
       <<128884, 128895>>, <<128985, 128991>>, <<129004, 129007>>,
       <<129009, 129023>>, <<129036, 129039>>, <<129096, 129103>>,
       <<129114, 129119>>, <<129160, 129167>>, <<129198, 129199>>,
       <<129202, 129279>>, <<129620, 129631>>, <<129646, 129647>>,
       <<129653, 129655>>, <<129661, 129663>>, <<129671, 129679>>,
       <<129709, 129711>>, <<129723, 129727>>, <<129734, 129743>>,
       <<129754, 129759>>, <<129768, 129775>>, <<129783, 129791>>,
       <<129939, 129939>>, <<129995, 130031>>, <<130042, 131071>>,
       <<173792, 173823>>, <<177977, 177983>>, <<178206, 178207>>,
       <<183970, 183983>>, <<191457, 194559>>, <<195102, 196607>>,
       <<201547, 917759>>, <<918000, 1114111>> >>

\* c.isprintable()
IsPrintable(c) ==
    IF c < 128 THEN c >= 32 /\ c # 127
    ELSE ~InRanges(c, NonPrintableRanges)

RECURSIVE Hex(_, _)
\* n in w lower-case hexadecimal digits
Hex(n, w) ==
    IF w = 0 THEN << >>
    ELSE Hex(n \div 16, w - 1)
         \o << IF n % 16 < 10 THEN 48 + (n % 16) ELSE 87 + (n % 16) >>

\* what repr writes for the character c of a str quoted with quote
ReprChar(c, quote) ==
    IF c = quote \/ c = 92 THEN << 92, c >>
    ELSE IF c = 9 THEN << 92, 116 >>
    ELSE IF c = 10 THEN << 92, 110 >>
    ELSE IF c = 13 THEN << 92, 114 >>
    ELSE IF IsPrintable(c) THEN << c >>
    ELSE IF c < 256 THEN << 92, 120 >> \o Hex(c, 2)
    ELSE IF c < 65536 THEN << 92, 117 >> \o Hex(c, 4)
    ELSE << 92, 85 >> \o Hex(c, 8)

\* repr(s) of a str: in single quotes, in double quotes when s holds a single
\* quote and no double quote
StrRepr(s) ==
    LET quote == IF InList(39, s) /\ ~InList(34, s) THEN 34 ELSE 39
    IN  << quote >>
        \o Concat([i \in 1..Len(s) |-> ReprChar(s[i], quote)])
        \o << quote >>

RECURSIVE Repr(_)
\* repr(v)
Repr(v) ==
    CASE v.py = "NoneType" -> << 78, 111, 110, 101 >>
      [] v.py = "bool" -> IF v.b THEN << 84, 114, 117, 101 >>
                          ELSE << 70, 97, 108, 115, 101 >>
      [] v.py = "int" -> IntStr(v.n)
      [] v.py = "float" -> v.r
      [] v.py = "str" -> StrRepr(v.s)
      [] v.py = "list" ->
           << 91 >>
           \o Join(<< 44, 32 >>,
                   [i \in 1..Len(v.items) |-> Repr(v.items[i])])
           \o << 93 >>
      [] v.py = "dict" ->
           << 123 >>
           \o Join(<< 44, 32 >>,
                   [i \in 1..Len(v.pairs) |->
                      StrRepr(v.pairs[i][1]) \o << 58, 32 >>
                      \o Repr(v.pairs[i][2])])
           \o << 125 >>

\* f"{v}": str(v), which is v for a str and repr(v) for the other types
Format(v) ==
    IF v.py = "str" THEN v.s ELSE Repr(v)

---------------------------------------------------------------------------
(* json.dump(v, f, ensure_ascii=False, indent=4)                           *)

\* what the encoder writes for the character c of a str
JsonChar(c) ==
    IF c = 34 THEN << 92, 34 >>
    ELSE IF c = 92 THEN << 92, 92 >>
    ELSE IF c = 8 THEN << 92, 98 >>
    ELSE IF c = 12 THEN << 92, 102 >>
    ELSE IF c = 10 THEN << 92, 110 >>
    ELSE IF c = 13 THEN << 92, 114 >>
    ELSE IF c = 9 THEN << 92, 116 >>
    ELSE IF c < 32 THEN << 92, 117 >> \o Hex(c, 4)
    ELSE << c >>

\* the encoding of a str
JsonString(s) ==
    IF \A i \in 1..Len(s) : s[i] >= 32 /\ s[i] # 34 /\ s[i] # 92
    THEN << 34 >> \o s \o << 34 >>
    ELSE << 34 >> \o Concat([i \in 1..Len(s) |-> JsonChar(s[i])])
         \o << 34 >>

\* a line feed and the indentation of nesting level n
JsonNewline(n) ==
    << 10 >> \o [i \in 1..(4 * n) |-> 32]

\* the encoding of a value that is written in one piece: an empty list, an
\* empty dict, or a value that is neither a list nor a dict
JsonAtom(v) ==
    CASE v.py = "NoneType" -> << 110, 117, 108, 108 >>
      [] v.py = "bool" -> IF v.b THEN << 116, 114, 117, 101 >>
                          ELSE << 102, 97, 108, 115, 101 >>
      [] v.py = "int" -> IntStr(v.n)
      [] v.py = "float" ->
           IF v.r = << 110, 97, 110 >> THEN << 78, 97, 78 >>
           ELSE IF v.r = << 105, 110, 102 >> THEN << 73, 110, 102, 105, 110,
                                                     105, 116, 121 >>
           ELSE IF v.r = << 45, 105, 110, 102 >> THEN << 45, 73, 110, 102,
                                                         105, 110, 105, 116,
                                                         121 >>
           ELSE v.r
      [] v.py = "str" -> JsonString(v.s)
      [] v.py = "list" -> << 91, 93 >>
      [] v.py = "dict" -> << 123, 125 >>

\* v is a list or a dict with something in it
JsonNested(v) ==
    v.py \in {"list", "dict"} /\ Truthy(v)

RECURSIVE iterencode(_, _)
\* the pieces the encoder yields for v met at nesting level n, each of which
\* json.dump hands to f.write in turn
iterencode(v, n) ==
    IF ~JsonNested(v) THEN << JsonAtom(v) >>
    ELSE IF v.py = "list" THEN
        Concat([i \in 1..Len(v.items) |->
                  LET buf == (IF i = 1 THEN << 91 >> ELSE << 44 >>)
                             \o JsonNewline(n + 1)
                  IN  IF v.items[i].py \in {"list", "dict"}
                      THEN << buf >> \o iterencode(v.items[i], n + 1)
                      ELSE << buf \o JsonAtom(v.items[i]) >>])
        \o << JsonNewline(n), << 93 >> >>
    ELSE
        << << 123 >>, JsonNewline(n + 1) >>
        \o Concat([i \in 1..Len(v.pairs) |->
                     (IF i = 1 THEN << >>
                      ELSE << << 44 >> \o JsonNewline(n + 1) >>)
                     \o << JsonString(v.pairs[i][1]), << 58, 32 >> >>
                     \o iterencode(v.pairs[i][2], n + 1)])
        \o << JsonNewline(n), << 125 >> >>

\* the text holds a surrogate code point, which the utf-8 codec of the file
\* refuses (UnicodeEncodeError)
HasSurrogate(text) ==
    \E i \in 1..Len(text) : text[i] >= 55296 /\ text[i] <= 57343

\* what the file holds once it is closed when f.write has refused one of
\* the pieces: the pieces written before that one
Written(pieces) ==
    LET bad == CHOOSE i \in 1..Len(pieces) :
                 /\ HasSurrogate(pieces[i])
                 /\ \A j \in 1..(i - 1) : ~HasSurrogate(pieces[j])
    IN  Concat(SubSeq(pieces, 1, bad - 1))

---------------------------------------------------------------------------
(* normalize_name                                                          *)

\* the characters the class [^a-z0-9] does not match
IsKeyChar(c) ==
    (c >= 97 /\ c <= 122) \/ (c >= 48 /\ c <= 57)

\* re.sub(r'[^a-z0-9]', '', s)
ReSubKey(s) ==
    SelectSeq(s, IsKeyChar)

\* normalize_name(name) raises AttributeError: name is truthy and has no
\* method lower
NormalizeRaises(name) ==
    Truthy(name) /\ name.py # "str"

\* a variant that forgets name.lower()
normalize_name_nolower(name) ==
    IF ~Truthy(name) THEN << >>
    ELSE ReSubKey(name.s)

\* normalize_name(name), when it does not raise
normalize_name(name) ==
    IF ~Truthy(name) THEN << >>
    ELSE ReSubKey(Lower(name.s))

---------------------------------------------------------------------------
(* get_mitre_groups                                                        *)

(* The keys it reads in the bundle. *)

\* 'type'
KeyType ==
    << 116, 121, 112, 101 >>

\* 'name'
KeyName ==
    << 110, 97, 109, 101 >>

\* 'description'
KeyDescription ==
    << 100, 101, 115, 99, 114, 105, 112, 116, 105, 111, 110 >>

\* 'aliases'
KeyAliases ==
    << 97, 108, 105, 97, 115, 101, 115 >>

\* 'external_references'
KeyExternalReferences ==
    << 101, 120, 116, 101, 114, 110, 97, 108, 95, 114, 101, 102, 101, 114,
       101, 110, 99, 101, 115 >>

\* 'x_mitre_deprecated'
KeyDeprecated ==
    << 120, 95, 109, 105, 116, 114, 101, 95, 100, 101, 112, 114, 101, 99, 97,
       116, 101, 100 >>

\* 'source_name'
KeySourceName ==
    << 115, 111, 117, 114, 99, 101, 95, 110, 97, 109, 101 >>

\* 'external_id'
KeyExternalId ==
    << 101, 120, 116, 101, 114, 110, 97, 108, 95, 105, 100 >>

\* 'objects'
KeyObjects ==
    << 111, 98, 106, 101, 99, 116, 115 >>

\* synonyms_map.get(search_term, [])
Synonyms(term) ==
    \* 'healthcare': 'медицина', 'здравоохранение', 'hospital',
    \* 'pharmaceutical', 'medical'
    IF term = << 104, 101, 97, 108, 116, 104, 99, 97, 114, 101 >> THEN
      << << 1084, 1077, 1076, 1080, 1094, 1080, 1085, 1072 >>,
         << 1079, 1076, 1088, 1072, 1074, 1086, 1086, 1093, 1088, 1072, 1085,
            1077, 1085, 1080, 1077 >>,
         << 104, 111, 115, 112, 105, 116, 97, 108 >>,
         << 112, 104, 97, 114, 109, 97, 99, 101, 117, 116, 105, 99, 97, 108 >>,
         << 109, 101, 100, 105, 99, 97, 108 >> >>
    \* 'finance': 'банк', 'финансы', 'banking', 'financial'
    ELSE IF term = << 102, 105, 110, 97, 110, 99, 101 >> THEN
      << << 1073, 1072, 1085, 1082 >>,
         << 1092, 1080, 1085, 1072, 1085, 1089, 1099 >>,
         << 98, 97, 110, 107, 105, 110, 103 >>,
         << 102, 105, 110, 97, 110, 99, 105, 97, 108 >> >>
    \* 'energy': 'энергетика', 'energy', 'oil', 'gas'
    ELSE IF term = << 101, 110, 101, 114, 103, 121 >> THEN
      << << 1101, 1085, 1077, 1088, 1075, 1077, 1090, 1080, 1082, 1072 >>,
         << 101, 110, 101, 114, 103, 121 >>,
         << 111, 105, 108 >>,
         << 103, 97, 115 >> >>
    \* 'government': 'правительство', 'government', 'state'
    ELSE IF term = << 103, 111, 118, 101, 114, 110, 109, 101, 110, 116 >> THEN
      << << 1087, 1088, 1072, 1074, 1080, 1090, 1077, 1083, 1100, 1089, 1090,
            1074, 1086 >>,
         << 103, 111, 118, 101, 114, 110, 109, 101, 110, 116 >>,
         << 115, 116, 97, 116, 101 >> >>
    \* 'telecom': 'телеком', 'telecom', 'communication'
    ELSE IF term = << 116, 101, 108, 101, 99, 111, 109 >> THEN
      << << 1090, 1077, 1083, 1077, 1082, 1086, 1084 >>,
         << 116, 101, 108, 101, 99, 111, 109 >>,
         << 99, 111, 109, 109, 117, 110, 105, 99, 97, 116, 105, 111, 110 >> >>
    \* 'manufacturing': 'производство', 'manufacturing', 'industrial'
    ELSE IF term = << 109, 97, 110, 117, 102, 97, 99, 116, 117, 114, 105,
                      110, 103 >> THEN
      << << 1087, 1088, 1086, 1080, 1079, 1074, 1086, 1076, 1089, 1090, 1074,
            1086 >>,
         << 109, 97, 110, 117, 102, 97, 99, 116, 117, 114, 105, 110, 103 >>,
         << 105, 110, 100, 117, 115, 116, 114, 105, 97, 108 >> >>
    ELSE << >>

\* terms = [search_term] + synonyms_map.get(search_term, [])
Terms(kw) ==
    << Lower(kw) >> \o Synonyms(Lower(kw))

\* ' '.join(aliases) raises TypeError: aliases is not iterable, or is a list
\* with an item that is not a str
JoinRaises(aliases) ==
    \/ NotIterable(aliases)
    \/ /\ aliases.py = "list"
       /\ \E k \in 1..Len(aliases.items) : aliases.items[k].py # "str"

\* the strings sep.join(aliases) joins: the items of a list, the characters
\* of a str, the keys of a dict
JoinItems(aliases) ==
    CASE aliases.py = "list" ->
           [k \in 1..Len(aliases.items) |-> aliases.items[k].s]
      [] aliases.py = "str" ->
           [k \in 1..Len(aliases.s) |-> << aliases.s[k] >>]
      [] aliases.py = "dict" -> PyKeys(aliases)

\* f"{name} {desc} {' '.join(aliases)}".lower(), desc being lower-cased already
TextBlob(obj) ==
    Lower(Format(PyGet(obj, KeyName, PyStr(<< >>))) \o << 32 >>
          \o Lower(PyGet(obj, KeyDescription, PyStr(<< >>)).s)
          \o << 32 >>
          \o Join(<< 32 >>,
                  JoinItems(PyGet(obj, KeyAliases, PyList(<< >>)))))

\* any(t in text_blob for t in terms)
MitreMatches(obj, kw) ==
    \E k \in 1..Len(Terms(kw)) : Contains(TextBlob(obj), Terms(kw)[k])

RECURSIVE RefLoop(_)
\* for ref in ext_refs, on the items of a list: raised when a ref reached
\* has no method get, else (mid, link) of the first 'mitre-attack' reference
RefLoop(refs) ==
    IF refs = << >> THEN
        [raised |-> FALSE, mid |-> PyStr(<< 78, 47, 65 >>),
         link |-> << 35 >>]
    ELSE IF Head(refs).py # "dict" THEN
        [raised |-> TRUE]
    ELSE IF PyGet(Head(refs), KeySourceName, PyNone)
               = PyStr(<< 109, 105, 116, 114, 101, 45, 97, 116, 116, 97, 99,
                          107 >>) THEN
        LET mid == PyGet(Head(refs), KeyExternalId,
                         PyStr(<< 78, 47, 65 >>))
        IN  [raised |-> FALSE, mid |-> mid,
             \* "https://attack.mitre.org/groups/{mid}/"
             link |-> << 104, 116, 116, 112, 115, 58, 47, 47, 97, 116, 116,
                         97, 99, 107, 46, 109, 105, 116, 114, 101, 46, 111,
                         114, 103, 47, 103, 114, 111, 117, 112, 115, 47 >>
                      \o Format(mid) \o << 47 >>]
    ELSE RefLoop(Tail(refs))

\* the loop over ext_refs = obj.get('external_references', [])
MitreRef(ext_refs) ==
    IF NotIterable(ext_refs) THEN [raised |-> TRUE]
    ELSE IF YieldsStr(ext_refs) THEN
        IF Truthy(ext_refs) THEN [raised |-> TRUE] ELSE RefLoop(<< >>)
    ELSE RefLoop(ext_refs.items)

\* the dict appended to results for a matching object
MitreRecord(obj) ==
    LET name == PyGet(obj, KeyName, PyStr(<< >>))
        desc == Lower(PyGet(obj, KeyDescription, PyStr(<< >>)).s)
        ref  == MitreRef(PyGet(obj, KeyExternalReferences,
                               PyList(<< >>)))
    IN  [source    |-> SOURCE_MITRE,
         name      |-> name,
         norm_name |-> normalize_name(name),
         aliases   |-> PyGet(obj, KeyAliases, PyList(<< >>)),
         details   |-> ReplaceNewline(Take(desc, DetailLimit)),
         id        |-> ref.mid,
         url       |-> ref.link,
         region    |-> << 71, 108, 111, 98, 97, 108 >>]

\* one turn of `for obj in objects`: the turn raises (no except clause is
\* around the loop), goes on to the next object, or appends a record
MitreTurn(obj, kw) ==
    \* obj.get, line 64
    IF obj.py # "dict" THEN "raise"
    ELSE IF \/ PyGet(obj, KeyType, PyNone)
                  # PyStr(<< 105, 110, 116, 114, 117, 115, 105, 111, 110, 45,
                             115, 101, 116 >>)
            \/ Truthy(PyGet(obj, KeyDeprecated, PyBool(FALSE)))
         THEN "continue"
    \* .lower(), line 68
    ELSE IF PyGet(obj, KeyDescription, PyStr(<< >>)).py # "str"
         THEN "raise"
    \* ' '.join(aliases), line 71
    ELSE IF JoinRaises(PyGet(obj, KeyAliases, PyList(<< >>)))
         THEN "raise"
    ELSE IF ~MitreMatches(obj, kw) THEN "continue"
    \* ref.get, line 77
    ELSE IF MitreRef(PyGet(obj, KeyExternalReferences,
                           PyList(<< >>))).raised
         THEN "raise"
    \* normalize_name(name), line 85
    ELSE IF NormalizeRaises(PyGet(obj, KeyName, PyStr(<< >>)))
         THEN "raise"
    ELSE "append"

RECURSIVE MitreLoop(_, _)
\* for obj in objects, on the items of a list: raised, or the results
MitreLoop(objects, kw) ==
    IF objects = << >> THEN [raised |-> FALSE, results |-> << >>]
    ELSE LET turn == MitreTurn(Head(objects), kw)
         IN  IF turn = "raise" THEN [raised |-> TRUE, results |-> << >>]
             ELSE LET rest == MitreLoop(Tail(objects), kw)
                  IN  IF rest.raised \/ turn = "continue" THEN rest
                      ELSE [raised  |-> FALSE,
                            results |-> << MitreRecord(Head(objects)) >>
                                        \o rest.results]

\* lines 49-93 on data = resp.json()
MitreScan(data, kw) ==
    \* data.get, line 49
    IF data.py # "dict" THEN [raised |-> TRUE, results |-> << >>]
    ELSE LET objects == PyGet(data, KeyObjects, PyList(<< >>))
         IN  IF NotIterable(objects)
             THEN [raised |-> TRUE, results |-> << >>]
             ELSE IF YieldsStr(objects)
             THEN [raised |-> Truthy(objects), results |-> << >>]
             ELSE MitreLoop(objects.items, kw)

\* get_mitre_groups(keyword, version) on the response resp of requests.get:
\* resp.raised is an exception of requests.get, resp.is_json tells whether
\* resp.json() parses the body, resp.data is what it returns.  The value is
\* the list returned, or raised when an exception leaves the function.
get_mitre_groups(kw, resp) ==
    IF resp.raised THEN [raised |-> FALSE, results |-> << >>]
    ELSE IF resp.status_code = 404 THEN [raised |-> FALSE, results |-> << >>]
    \* resp.raise_for_status()
    ELSE IF resp.status_code >= 400 /\ resp.status_code < 600
         THEN [raised |-> FALSE, results |-> << >>]
    ELSE IF ~resp.is_json THEN [raised |-> FALSE, results |-> << >>]
    ELSE MitreScan(resp.data, kw)

---------------------------------------------------------------------------
(* parse_sheet_tab                                                         *)

RECURSIVE PotentialNameFromTwo(_)
\* the test written len(...) >= 2: a two-character code is taken as the name
PotentialNameFromTwo(row) ==
    IF row = << >> THEN << >>
    ELSE IF Head(row) # << >> /\ Len(Strip(Head(row))) >= MinNameLen
         THEN Strip(Head(row))
    ELSE PotentialNameFromTwo(Tail(row))

RECURSIVE PotentialName(_)
\* the loop over row.values that picks potential_name
PotentialName(row) ==
    IF row = << >> THEN << >>
    ELSE IF Head(row) # << >> /\ Len(Strip(Head(row))) > MinNameLen
         THEN Strip(Head(row))
    ELSE PotentialName(Tail(row))

RECURSIVE NonEmpty(_)
\* [str(v) for v in row.values if v]
NonEmpty(row) ==
    IF row = << >> THEN << >>
    ELSE IF Head(row) # << >> THEN << Head(row) >> \o NonEmpty(Tail(row))
    ELSE NonEmpty(Tail(row))

\* the row test with the synonym expansion of get_mitre_groups
RowMatchesExpanded(row, kw) ==
    \E k \in 1..Len(Terms(kw)) :
        Contains(Lower(Join(<< 32 >>, row)), Terms(kw)[k])

\* search_term in " ".join(row.values).lower()
RowMatches(row, kw) ==
    Contains(Lower(Join(<< 32 >>, row)), Lower(kw))

\* f"https://docs.google.com/spreadsheets/d/{sheet_id}/edit#gid={gid}"
SheetUrl(sheet_id, gid) ==
    << 104, 116, 116, 112, 115, 58, 47, 47, 100, 111, 99, 115, 46, 103, 111,
       111, 103, 108, 101, 46, 99, 111, 109, 47, 115, 112, 114, 101, 97, 100,
       115, 104, 101, 101, 116, 115, 47, 100, 47 >>
    \o sheet_id \o << 47, 101, 100, 105, 116, 35, 103, 105, 100, 61 >> \o gid

\* the dict appended to results for a matching row with a name
SheetRecord(sheet_id, gid, row) ==
    LET potential_name == PotentialName(row)
        \* " | ".join(...)[:300]
        context == Take(Join(<< 32, 124, 32 >>, NonEmpty(row)), DetailLimit)
    IN  [source    |-> SOURCE_SHEET,
         name      |-> PyStr(potential_name),
         norm_name |-> normalize_name(PyStr(potential_name)),
         aliases   |-> PyList(<< >>),
         details   |-> ReplaceNewline(context),
         \* "N/A (Sheet)"
         id        |-> PyStr(<< 78, 47, 65, 32, 40, 83, 104, 101, 101, 116,
                                41 >>),
         url       |-> SheetUrl(sheet_id, gid),
         \* f"Sheet-GID-{gid}"
         region    |-> << 83, 104, 101, 101, 116, 45, 71, 73, 68, 45 >> \o gid]

RECURSIVE SheetLoop(_, _, _, _)
\* for index, row in df.iterrows(): ...
SheetLoop(sheet_id, gid, kw, rows) ==
    IF rows = << >> THEN << >>
    ELSE LET row == Head(rows)
             rest == SheetLoop(sheet_id, gid, kw, Tail(rows))
         IN  IF ~RowMatches(row, kw) THEN rest
             ELSE IF PotentialName(row) = << >> THEN rest
             ELSE << SheetRecord(sheet_id, gid, row) >> \o rest

\* parse_sheet_tab(sheet_id, gid, keyword) on the response resp of requests.get:
\* resp.raised is an exception of the download or of pd.read_csv, resp.rows
\* the rows of df (every cell a str, '' where the tab has none)
parse_sheet_tab(sheet_id, gid, kw, resp) ==
    IF resp.raised THEN << >>
    ELSE IF resp.status_code # 200 THEN << >>
    ELSE SheetLoop(sheet_id, gid, kw, resp.rows)

---------------------------------------------------------------------------
(* deduplicate_results                                                     *)
(* The lists hold references: the function mutates the dicts it was given  *)
(* and returns a list of those same dicts.  seen_names is a Python dict:   *)
(* a sequence of (key, value) in insertion order, an assignment to a key   *)
(* already present keeping the key's position.                             *)

\* item['norm_name'] read as item['name']: deduplication on the raw name
KeyOfRawName(item) ==
    item["name"]

\* key = item['norm_name']
KeyOf(item) ==
    item["norm_name"]

\* key in seen_names
DictHas(seen, key) ==
    \E k \in 1..Len(seen) : seen[k].key = key

\* seen_names[key]
DictGet(seen, key) ==
    seen[CHOOSE k \in 1..Len(seen) : seen[k].key = key].ref

\* seen_names[key] = ref
DictSet(seen, key, ref) ==
    IF DictHas(seen, key)
    THEN [k \in 1..Len(seen) |->
            IF seen[k].key = key THEN [key |-> key, ref |-> ref] ELSE seen[k]]
    ELSE Append(seen, [key |-> key, ref |-> ref])

RECURSIVE MitrePass(_, _)
\* for item in mitre_list: ...   (st.h the dicts, st.seen seen_names)
MitrePass(st, items) ==
    IF items = << >> THEN st
    ELSE LET r   == Head(items)
             key == KeyOf(st.h[r])
         IN  MitrePass(
                 [h    |-> [st.h EXCEPT ![r] =
                               SetKey(@, "confirmed_in", << LABEL_MITRE >>)],
                  seen |-> DictSet(st.seen, key, r)],
                 Tail(items))

\* f"\n[Также найдено в Google Sheet: {item['url']}]"
Note(item) ==
    << 10, 91, 1058, 1072, 1082, 1078, 1077, 32, 1085, 1072, 1081, 1076,
       1077, 1085, 1086, 32, 1074, 32, 71, 111, 111, 103, 108, 101, 32, 83,
       104, 101, 101, 116, 58, 32 >>
    \o item["url"] \o << 93 >>

\* the three statements under `if "Google Sheet" not in existing.get(...)`
Confirm(existing, item) ==
    LET a == SetKey(existing, "confirmed_in",
                    Append(existing["confirmed_in"], SOURCE_SHEET))
        b == SetKey(a, "source", SOURCE_BOTH)
    IN  SetKey(b, "details", b["details"] \o Note(item))

RECURSIVE SheetPassJoinOnly(_, _)
\* the loop without its else branch: a tabular record whose key the structured
\* feed did not produce is dropped
SheetPassJoinOnly(st, items) ==
    IF items = << >> THEN st
    ELSE LET r   == Head(items)
             key == KeyOf(st.h[r])
         IN  IF DictHas(st.seen, key)
             THEN LET e == DictGet(st.seen, key)
                  IN  IF ~InList(SOURCE_SHEET,
                                 Get(st.h[e], "confirmed_in", << >>))
                      THEN SheetPassJoinOnly(
                               [h    |-> [st.h EXCEPT ![e] =
                                             Confirm(@, st.h[r])],
                                seen |-> st.seen],
                               Tail(items))
                      ELSE SheetPassJoinOnly(st, Tail(items))
             ELSE SheetPassJoinOnly(st, Tail(items))

RECURSIVE SheetPass(_, _)
\* for item in sheet_list: ...
SheetPass(st, items) ==
    IF items = << >> THEN st
    ELSE LET r   == Head(items)
             key == KeyOf(st.h[r])
         IN  IF DictHas(st.seen, key)
             THEN LET e == DictGet(st.seen, key)
                  IN  IF ~InList(SOURCE_SHEET,
                                 Get(st.h[e], "confirmed_in", << >>))
                      THEN SheetPass(
                               [h    |-> [st.h EXCEPT ![e] =
                                             Confirm(@, st.h[r])],
                                seen |-> st.seen],
                               Tail(items))
                      ELSE SheetPass(st, Tail(items))
             ELSE SheetPass(
                      [h    |-> [st.h EXCEPT ![r] =
                                    SetKey(@, "confirmed_in",
                                           << SOURCE_SHEET >>)],
                       seen |-> DictSet(st.seen, key, r)],
                      Tail(items))

\* deduplicate_results(mitre_list, sheet_list) on the dicts h: the dicts as it
\* leaves them, and the list it returns
deduplicate_results(h, mitre_list, sheet_list) ==
    LET st == SheetPass(MitrePass([h |-> h, seen |-> << >>], mitre_list),
                        sheet_list)
    IN  [h      |-> st.h,
         result |-> [k \in 1..Len(st.seen) |-> st.seen[k].ref]]

---------------------------------------------------------------------------
(* final_results.sort(key=..., reverse=True)                               *)

RECURSIVE StrLess(_, _)
\* a < b on Python strings
StrLess(a, b) ==
    IF b = << >> THEN FALSE
    ELSE IF a = << >> THEN TRUE
    ELSE IF Head(a) # Head(b) THEN Head(a) < Head(b)
    ELSE StrLess(Tail(a), Tail(b))

\* lambda x: (len(x.get('confirmed_in', [])), x['source'])
SortKey(x) ==
    [n |-> Len(Get(x, "confirmed_in", << >>)),
     source |-> x["source"]]

\* k1 < k2 on the key tuples
KeyLess(k1, k2) ==
    k1.n < k2.n \/ (k1.n = k2.n /\ StrLess(k1.source, k2.source))

\* lst[::-1]
Reverse(lst) ==
    [i \in 1..Len(lst) |-> lst[Len(lst) + 1 - i]]

RECURSIVE InsertSorted(_, _, _)
\* one step of the binary insertion sort: r goes after every element of the
\* sorted prefix that is not greater than it
InsertSorted(h, sorted, r) ==
    IF sorted = << >> THEN << r >>
    ELSE IF KeyLess(SortKey(h[r]), SortKey(h[Head(sorted)]))
         THEN << r >> \o sorted
    ELSE << Head(sorted) >> \o InsertSorted(h, Tail(sorted), r)

RECURSIVE StableSort(_, _, _)
\* the ascending stable sort of list.sort
StableSort(h, sorted, rest) ==
    IF rest = << >> THEN sorted
    ELSE StableSort(h, InsertSorted(h, sorted, Head(rest)), Tail(rest))

\* sorted ascending and then reversed: descending, but ties come out reversed
ListSortThenReverse(h, lst) ==
    Reverse(StableSort(h, << >>, lst))

\* lst.sort(key=..., reverse=True): list.sort reverses the list, sorts it
\* ascending and stable, and reverses the result
ListSortReverse(h, lst) ==
    Reverse(StableSort(h, << >>, Reverse(lst)))

\* the value of final_results after the sort: its dicts as they are then
Snapshot(h, lst) ==
    [i \in 1..Len(lst) |-> h[lst[i]]]

---------------------------------------------------------------------------
(* The report of lines 191-221: the text the print calls hand to           *)
(* sys.stdout (each print ending its text with a line feed), the prompt    *)
(* handed to input(), and the file the script saves.  The stream is taken  *)
(* to accept every str; the file is opened with encoding='utf-8'.          *)

\* '=' * 20
Rule ==
    [i \in 1..20 |-> 61]

\* ', '.join(group['aliases'][:5]) raises TypeError: the value cannot be
\* sliced, or one of its first five items is not a str
AliasesRaise(aliases) ==
    \/ aliases.py \notin {"list", "str"}
    \/ /\ aliases.py = "list"
       /\ \E k \in 1..Len(aliases.items) :
             k <= ShownAliases /\ aliases.items[k].py # "str"

\* the print calls for group, the i-th of final_results: the text written,
\* and raised when line 203 raises
PrintGroup(i, group) ==
    LET confirmed == Get(group, "confirmed_in", << >>)
        \* "✅" if len(...) > 1 else "ℹ️"
        badge == IF Len(confirmed) > 1 THEN << 9989 >> ELSE << 8505, 65039 >>
        head ==
            \* f"\n[{i}] {badge} {group['name']}"
            << 10, 91 >> \o IntStr(i) \o << 93, 32 >> \o badge \o << 32 >>
            \o Format(group["name"]) \o << 10 >>
            \* f"    Источники: {sources}"
            \o << 32, 32, 32, 32, 1048, 1089, 1090, 1086, 1095, 1085, 1080,
                  1082, 1080, 58, 32 >>
            \o Join(<< 44, 32 >>, confirmed) \o << 10 >>
            \* f"    MITRE ID: {group['id']}"
            \o (IF group["id"] # PyStr(<< 78, 47, 65, 32, 40, 83, 104, 101,
                                          101, 116, 41 >>)
                THEN << 32, 32, 32, 32, 77, 73, 84, 82, 69, 32, 73, 68, 58,
                        32 >>
                     \o Format(group["id"]) \o << 10 >>
                ELSE << >>)
    IN  IF Truthy(group["aliases"]) /\ AliasesRaise(group["aliases"])
        THEN [raised |-> TRUE, text |-> head]
        ELSE [raised |-> FALSE,
              text |->
                head
                \* f"    Алиасы: {', '.join(group['aliases'][:5])}"
                \o (IF Truthy(group["aliases"])
                    THEN << 32, 32, 32, 32, 1040, 1083, 1080, 1072, 1089,
                            1099, 58, 32 >>
                         \o Join(<< 44, 32 >>,
                                 Take(JoinItems(group["aliases"]),
                                      ShownAliases))
                         \o << 10 >>
                    ELSE << >>)
                \* f"    Детали: {group['details'][:150]}..."
                \o << 32, 32, 32, 32, 1044, 1077, 1090, 1072, 1083, 1080, 58,
                      32 >>
                \o Take(group["details"], ShownDetails)
                \o << 46, 46, 46, 10 >>
                \* f"    Ссылка: {group['url']}"
                \o << 32, 32, 32, 32, 1057, 1089, 1099, 1083, 1082, 1072, 58,
                      32 >>
                \o group["url"] \o << 10 >>]

RECURSIVE PrintGroups(_, _, _)
\* for i, group in enumerate(final_results, 1), from the i-th group on
PrintGroups(h, lst, i) ==
    IF i > Len(lst) THEN [raised |-> FALSE, text |-> << >>]
    ELSE LET one == PrintGroup(i, h[lst[i]])
         IN  IF one.raised THEN one
             ELSE LET rest == PrintGroups(h, lst, i + 1)
                  IN  [raised |-> rest.raised,
                       text |-> one.text \o rest.text]

\* lines 192-205: the heading and the groups
PrintFound(h, lst) ==
    LET groups == PrintGroups(h, lst, 1)
    IN  [raised |-> groups.raised,
         text |->
           \* f"\n{'='*20} ИТОГО УНИКАЛЬНЫХ ГРУПП: {len(...)} {'='*20}"
           << 10 >> \o Rule
           \o << 32, 1048, 1058, 1054, 1043, 1054, 32, 1059, 1053, 1048,
                 1050, 1040, 1051, 1068, 1053, 1067, 1061, 32, 1043, 1056,
                 1059, 1055, 1055, 58, 32 >>
           \o IntStr(Len(lst)) \o << 32 >> \o Rule \o << 10 >>
           \o groups.text]

\* cg of lines 212-215: a copy of the dict g without 'norm_name' and
\* 'confirmed_in'
CleanCopy(g) ==
    PyDict(<< << << 115, 111, 117, 114, 99, 101 >>, PyStr(g["source"]) >>,
              << << 110, 97, 109, 101 >>, g["name"] >>,
              << << 97, 108, 105, 97, 115, 101, 115 >>, g["aliases"] >>,
              << << 100, 101, 116, 97, 105, 108, 115 >>, PyStr(g["details"]) >>,
              << << 105, 100 >>, g["id"] >>,
              << << 117, 114, 108 >>, PyStr(g["url"]) >>,
              << << 114, 101, 103, 105, 111, 110 >>, PyStr(g["region"]) >> >>)

\* f"threat_intel_{user_keyword}_deduped.json"
FileName(kw) ==
    << 116, 104, 114, 101, 97, 116, 95, 105, 110, 116, 101, 108, 95 >>
    \o kw
    \o << 95, 100, 101, 100, 117, 112, 101, 100, 46, 106, 115, 111, 110 >>

\* lines 207-219 on the answer typed (answer.eof: input() meets the end of
\* the input and raises EOFError) and on whether open() gives the file:
\* the prompts handed to input(), the text the print calls write, the files
\* open() has made with what they hold when closed, and raised when an
\* exception ends the script
SaveReport(h, lst, kw, answer, writable) ==
    LET prompt == << 10, 1057, 1086, 1093, 1088, 1072, 1085, 1080, 1090,
                     1100, 32, 1095, 1080, 1089, 1090, 1099, 1081, 32, 1086,
                     1090, 1095, 1077, 1090, 32, 1074, 32, 74, 83, 79, 78,
                     63, 32, 40, 121, 47, 110, 41, 58, 32 >>
        clean_results == PyList([i \in 1..Len(lst) |-> CleanCopy(h[lst[i]])])
        pieces == iterencode(clean_results, 0)
        dump == Concat(pieces)
    IN  IF answer.eof
        THEN [raised |-> TRUE, asked |-> << prompt >>, text |-> << >>,
              files |-> << >>]
        \* if save == 'y'
        ELSE IF Lower(answer.line) # << 121 >>
        THEN [raised |-> FALSE, asked |-> << prompt >>, text |-> << >>,
              files |-> << >>]
        ELSE IF ~writable
        THEN [raised |-> TRUE, asked |-> << prompt >>, text |-> << >>,
              files |-> << >>]
        \* f.write raises for one of the pieces
        ELSE IF HasSurrogate(dump)
        THEN [raised |-> TRUE, asked |-> << prompt >>, text |-> << >>,
              files |-> << [name |-> FileName(kw),
                            text |-> Written(pieces)] >>]
        ELSE [raised |-> FALSE, asked |-> << prompt >>,
              \* f"[+] Сохранено в {fname}"
              text |-> << 91, 43, 93, 32, 1057, 1086, 1093, 1088, 1072, 1085,
                          1077, 1085, 1086, 32, 1074, 32 >>
                       \o FileName(kw) \o << 10 >>,
              files |-> << [name |-> FileName(kw), text |-> dump] >>]

\* lines 191-221 on what the printing of lines 192-205 (found) and the
\* saving of lines 207-219 (save) do:
\* if final_results: ... else: print("\n[-] Ничего не найдено.")
PrintReport(lst, found, save) ==
    IF lst # << >>
    THEN IF found.raised
         THEN [raised |-> TRUE, asked |-> << >>, text |-> found.text,
               files |-> << >>]
         ELSE [raised |-> save.raised, asked |-> save.asked,
               text |-> found.text \o save.text, files |-> save.files]
    ELSE [raised |-> FALSE, asked |-> << >>,
          text |-> << 10, 91, 45, 93, 32, 1053, 1080, 1095, 1077, 1075, 1086,
                      32, 1085, 1077, 32, 1085, 1072, 1081, 1076, 1077, 1085,
                      1086, 46, 10 >>,
          files |-> << >>]
---------------------------------------------------------------------------
(* Inputs of the script: the keyword typed in and what the downloads give. *)

\* 'apt' (no synonyms) and 'energy' (a key of synonyms_map)
Keywords ==
    { << 97, 112, 116 >>, << 101, 110, 101, 114, 103, 121 >> }

\* what input() gives: the line typed, or EOFError at the end of the input
Typed(line) ==
    [eof |-> FALSE, line |-> line]

EndOfInput ==
    [eof |-> TRUE, line |-> << >>]

\* the lines typed at the first prompt: 'apt', ' energy ', '' and ' '
KeywordLines ==
    { Typed(<< 97, 112, 116 >>), Typed(<< 32, 101, 110, 101, 114, 103, 121,
                                          32 >>),
      Typed(<< >>), Typed(<< 32 >>), EndOfInput }

\* what the saving meets, as (answer typed, open() gives the file): 'y' and
\* the file opens, 'Y' and it does not, 'n', and the end of the input
SaveCases ==
    { << Typed(<< 121 >>), TRUE >>, << Typed(<< 89 >>), FALSE >>,
      << Typed(<< 110 >>), TRUE >>, << EndOfInput, TRUE >> }

\* objects of a bundle
ObjectPool ==
    { \* 'APT28', described 'Energy', alias 'Fancy', MITRE id G0007
      PyDict(<< << KeyType, PyStr(<< 105, 110, 116, 114, 117, 115, 105, 111,
                                     110, 45, 115, 101, 116 >>) >>,
                << KeyName, PyStr(<< 65, 80, 84, 50, 56 >>) >>,
                << KeyDescription, PyStr(<< 69, 110, 101, 114, 103, 121 >>) >>,
                << KeyAliases, PyList(<< PyStr(<< 70, 97, 110, 99, 121 >>) >>) >>,
                << KeyExternalReferences, PyList(
                   << PyDict(<< << KeySourceName, PyStr(<< 99, 97, 112, 101,
                                                           99 >>) >>,
                                << KeyExternalId,
                                   PyStr(<< 67, 65, 80, 69, 67, 45, 49 >>) >> >>),
                      PyDict(<< << KeySourceName,
                                   PyStr(<< 109, 105, 116, 114, 101, 45, 97,
                                            116, 116, 97, 99, 107 >>) >>,
                                << KeyExternalId,
                                   PyStr(<< 71, 48, 48, 48, 55 >>) >> >>) >>) >> >>),
      \* 'apt-28', described 'oil', no aliases, no references
      PyDict(<< << KeyType, PyStr(<< 105, 110, 116, 114, 117, 115, 105, 111,
                                     110, 45, 115, 101, 116 >>) >>,
                << KeyName, PyStr(<< 97, 112, 116, 45, 50, 56 >>) >>,
                << KeyDescription, PyStr(<< 111, 105, 108 >>) >>,
                << KeyDeprecated, PyBool(FALSE) >> >>),
      \* 'APT1', described 'energy', deprecated
      PyDict(<< << KeyType, PyStr(<< 105, 110, 116, 114, 117, 115, 105, 111,
                                     110, 45, 115, 101, 116 >>) >>,
                << KeyName, PyStr(<< 65, 80, 84, 49 >>) >>,
                << KeyDescription, PyStr(<< 101, 110, 101, 114, 103, 121 >>) >>,
                << KeyDeprecated, PyBool(TRUE) >> >>),
      \* no name, described 'apt gas'
      PyDict(<< << KeyType, PyStr(<< 105, 110, 116, 114, 117, 115, 105, 111,
                                     110, 45, 115, 101, 116 >>) >>,
                << KeyDescription, PyStr(<< 97, 112, 116, 32, 103, 97, 115 >>) >> >>),
      \* not an intrusion set: 'apt', described 'energy'
      PyDict(<< << KeyType, PyStr(<< 109, 97, 108, 119, 97, 114, 101 >>) >>,
                << KeyName, PyStr(<< 97, 112, 116 >>) >>,
                << KeyDescription, PyStr(<< 101, 110, 101, 114, 103, 121 >>) >> >>) }

\* objects of another shape than the loop of get_mitre_groups expects
OddObjects ==
    { \* "description": null
      PyDict(<< << KeyType, PyStr(<< 105, 110, 116, 114, 117, 115, 105, 111,
                                     110, 45, 115, 101, 116 >>) >>,
                << KeyName, PyStr(<< 65, 80, 84, 50, 56 >>) >>,
                << KeyDescription, PyNone >> >>),
      \* "aliases": null
      PyDict(<< << KeyType, PyStr(<< 105, 110, 116, 114, 117, 115, 105, 111,
                                     110, 45, 115, 101, 116 >>) >>,
                << KeyName, PyStr(<< 65, 80, 84, 50, 56 >>) >>,
                << KeyDescription, PyStr(<< 97, 112, 116 >>) >>,
                << KeyAliases, PyNone >> >>),
      \* "name": 28, described 'apt 28'
      PyDict(<< << KeyType, PyStr(<< 105, 110, 116, 114, 117, 115, 105, 111,
                                     110, 45, 115, 101, 116 >>) >>,
                << KeyName, PyInt(28) >>,
                << KeyDescription, PyStr(<< 97, 112, 116, 32, 50, 56 >>) >> >>),
      \* "name": 1.5, described 'apt'
      PyDict(<< << KeyType, PyStr(<< 105, 110, 116, 114, 117, 115, 105, 111,
                                     110, 45, 115, 101, 116 >>) >>,
                << KeyName, PyFloat(<< 49, 46, 53 >>) >>,
                << KeyDescription, PyStr(<< 97, 112, 116 >>) >> >>),
      \* 'Fox', described 'energy', "external_references": "G0007"
      PyDict(<< << KeyType, PyStr(<< 105, 110, 116, 114, 117, 115, 105, 111,
                                     110, 45, 115, 101, 116 >>) >>,
                << KeyName, PyStr(<< 70, 111, 120 >>) >>,
                << KeyDescription, PyStr(<< 101, 110, 101, 114, 103, 121 >>) >>,
                << KeyExternalReferences, PyStr(<< 71, 48, 48, 48, 55 >>) >> >>),
      \* 'Owl', described 'apt', "aliases": {"k": 1}: appended, and line 203
      \* raises on it
      PyDict(<< << KeyType, PyStr(<< 105, 110, 116, 114, 117, 115, 105, 111,
                                     110, 45, 115, 101, 116 >>) >>,
                << KeyName, PyStr(<< 79, 119, 108 >>) >>,
                << KeyDescription, PyStr(<< 97, 112, 116 >>) >>,
                << KeyAliases, PyDict(<< << << 107 >>, PyInt(1) >> >>) >> >>),
      \* "name": [], described 'apt', MITRE id ["G1"]: appended with the key ''
      PyDict(<< << KeyType, PyStr(<< 105, 110, 116, 114, 117, 115, 105, 111,
                                     110, 45, 115, 101, 116 >>) >>,
                << KeyName, PyList(<< >>) >>,
                << KeyDescription, PyStr(<< 97, 112, 116 >>) >>,
                << KeyExternalReferences, PyList(
                   << PyDict(<< << KeySourceName,
                                   PyStr(<< 109, 105, 116, 114, 101, 45, 97,
                                            116, 116, 97, 99, 107 >>) >>,
                                << KeyExternalId,
                                   PyList(<< PyStr(<< 71, 49 >>) >>) >> >>) >>) >> >>),
      \* an object that is a JSON string
      PyStr(<< 97, 112, 116 >>) }

\* rows of a tab
RowPool ==
    { \* ['T1', 'APT 28', 'energy']
      << << 84, 49 >>, << 65, 80, 84, 32, 50, 56 >>,
         << 101, 110, 101, 114, 103, 121 >> >>,
      \* ['---', 'apt energy']
      << << 45, 45, 45 >>,
         << 97, 112, 116, 32, 101, 110, 101, 114, 103, 121 >> >>,
      \* ['x', 'oil', 'ap', 't']
      << << 120 >>, << 111, 105, 108 >>, << 97, 112 >>, << 116 >> >> }

\* {"objects": os}
Bundle(os) ==
    PyDict(<< << KeyObjects, os >> >>)

\* the bundles resp.json() can give
Bundles ==
    { Bundle(PyList(os)) : os \in SeqsUpTo(ObjectPool, MaxObjects) }
    \cup { Bundle(PyList(<< o >>)) : o \in OddObjects }
    \cup { Bundle(PyList(<< o1, o2 >>)) :
             o1 \in ObjectPool, o2 \in OddObjects }
    \* {"type": "bundle"}, {"objects": null}, {"objects": ""}, []
    \cup { PyDict(<< << KeyType, PyStr(<< 98, 117, 110, 100, 108, 101 >>) >> >>),
           Bundle(PyNone),
           Bundle(PyStr(<< >>)),
           PyList(<< >>) }

\* what requests.get(url) of get_mitre_groups can give
MitreResponses ==
    { [raised |-> TRUE, status_code |-> 0, is_json |-> FALSE,
       data |-> PyNone] }
    \cup { [raised |-> FALSE, status_code |-> c, is_json |-> FALSE,
            data |-> PyNone] : c \in {404, 500, 200} }
    \cup { [raised |-> FALSE, status_code |-> 200, is_json |-> TRUE,
            data |-> b] : b \in Bundles }
    \cup { [raised |-> FALSE, status_code |-> c, is_json |-> TRUE,
            data |-> Bundle(PyList(<< o >>))] :
             c \in {203, 404, 500}, o \in ObjectPool }

\* what requests.get(csv_url) of parse_sheet_tab can give
SheetResponses ==
    { [raised |-> TRUE, status_code |-> 0, rows |-> << >>] }
    \cup { [raised |-> FALSE, status_code |-> c, rows |-> << >>] :
             c \in {203, 404} }
    \cup { [raised |-> FALSE, status_code |-> 200, rows |-> rs] :
             rs \in SeqsUpTo(RowPool, MaxSheet) }

\* how the download of get_mitre_groups ended: which return of lines 38-47
\* was taken, if any
MitreOutcome(resp) ==
    IF resp.raised THEN "exception"
    ELSE IF resp.status_code = 404 THEN "http_error"
    ELSE IF resp.status_code >= 400 /\ resp.status_code < 600
         THEN "http_error"
    ELSE IF ~resp.is_json THEN "exception"
    ELSE "ok"

\* how the download of parse_sheet_tab ended
SheetOutcome(resp) ==
    IF resp.raised THEN "exception"
    ELSE IF resp.status_code # 200 THEN "http_error"
    ELSE "ok"

\* the references of n dicts allocated after the dicts of h
NewRefs(h, n) ==
    [i \in 1..n |-> Len(h) + i]

NoNorm ==
    [name |-> << >>, first |-> << >>, key |-> << >>, rekey |-> << >>]

---------------------------------------------------------------------------
(* The script (the __main__ block).                                        *)

Init ==
    /\ pc = "start"
    /\ keyword = << >>
    /\ gid_idx = 1
    /\ mitre_status = "none"
    /\ sheet_failed = 0
    /\ mitre_results = << >>
    /\ sheet_results = << >>
    /\ reconciled = << >>
    /\ final_results = << >>
    /\ ranked = << >>
    /\ report = << >>
    /\ heap = << >>
    /\ df = << >>
    /\ norm = NoNorm

\* user_keyword = input(...).strip(); if not user_keyword: sys.exit(1)
CheckKeyword ==
    /\ pc = "start"
    /\ \E typed \in KeywordLines :
          IF typed.eof
          THEN pc' = "crashed" /\ UNCHANGED keyword
          ELSE /\ keyword' = Strip(typed.line)
               /\ pc' = IF keyword' = << >> THEN "exit" ELSE "mitre"
    /\ UNCHANGED << gid_idx, mitre_status, sheet_failed,
                    mitre_results, sheet_results, reconciled, final_results,
                    ranked, report, heap, df, norm >>

\* mitre_results = get_mitre_groups(user_keyword, VERSION); an exception that
\* leaves get_mitre_groups ends the script with a traceback
GetMitre ==
    /\ pc = "mitre"
    /\ \E resp \in MitreResponses :
          \E res \in { get_mitre_groups(keyword, resp) } :
             /\ mitre_status' = MitreOutcome(resp)
             /\ IF res.raised
                THEN /\ pc' = "crashed"
                     /\ UNCHANGED << mitre_results, heap >>
                ELSE /\ pc' = "sheets"
                     /\ mitre_results' = NewRefs(heap, Len(res.results))
                     /\ heap' = heap \o res.results
    /\ UNCHANGED << keyword, gid_idx, sheet_failed, sheet_results,
                    reconciled, final_results, ranked, report, df, norm >>

\* one turn of the loop over REGION_GIDS:
\* sheet_results.extend(parse_sheet_tab(SHEET_ID, gid, user_keyword)).
\* The model follows the scans that leave at most MaxSheet tabular records.
ScanTab ==
    /\ pc = "sheets"
    /\ gid_idx <= NumTabs
    /\ \E resp \in SheetResponses :
          \E res \in { parse_sheet_tab(SHEET_ID, REGION_GIDS[gid_idx],
                                       keyword, resp) } :
             /\ Len(sheet_results) + Len(res) <= MaxSheet
             /\ sheet_results' = sheet_results \o NewRefs(heap, Len(res))
             /\ heap' = heap \o res
             /\ sheet_failed' =
                   sheet_failed + (IF SheetOutcome(resp) = "ok" THEN 0 ELSE 1)
    /\ gid_idx' = gid_idx + 1
    /\ pc' = IF gid_idx = NumTabs THEN "dedup" ELSE "sheets"
    /\ UNCHANGED << keyword, mitre_status, mitre_results, reconciled,
                    final_results, ranked, report, df, norm >>

\* final_results = deduplicate_results(mitre_results, sheet_results)
Reconcile ==
    /\ pc = "dedup"
    /\ \E d \in { deduplicate_results(heap, mitre_results, sheet_results) } :
          /\ heap' = d.h
          /\ final_results' = d.result
          /\ reconciled' = d.result
    /\ pc' = "sort"
    /\ UNCHANGED << keyword, gid_idx, mitre_status, sheet_failed,
                    mitre_results, sheet_results, ranked, report, df, norm >>

\* lines 189-221: final_results.sort(...), the report is printed and, when
\* asked for, saved; an exception that line 203, input() or the saving raises
\* ends the script
Rank ==
    /\ pc = "sort"
    /\ \E sorted \in { ListSortReverse(heap, final_results) } :
          /\ final_results' = sorted
          /\ ranked' = Append(ranked, Snapshot(heap, sorted))
          /\ \E found \in { PrintFound(heap, sorted) }, case \in SaveCases :
                \E save \in { SaveReport(heap, sorted, keyword,
                                         case[1], case[2]) } :
                \E out \in { PrintReport(sorted, found, save) } :
                   /\ report' = Append(report, [asked |-> out.asked,
                                                text  |-> out.text,
                                                files |-> out.files])
                   /\ pc' = IF out.raised THEN "crashed" ELSE "done"
    /\ UNCHANGED << keyword, gid_idx, mitre_status, sheet_failed,
                    mitre_results, sheet_results, reconciled, heap, df, norm >>

Next ==
    \/ CheckKeyword
    \/ GetMitre
    \/ ScanTab
    \/ Reconcile
    \/ Rank

Spec ==
    Init /\ [][Next]_vars

\* a second pass over the same two lists: deduplicate_results and the sort are
\* called again on mitre_results and sheet_results as the first pass left them
Again ==
    /\ pc = "done"
    /\ Len(ranked) < MaxRuns
    /\ pc' = "dedup"
    /\ UNCHANGED << keyword, gid_idx, mitre_status, sheet_failed,
                    mitre_results, sheet_results, reconciled, final_results,
                    ranked, report, heap, df, norm >>

NextTwice ==
    \/ Next
    \/ Again

SpecTwice ==
    Init /\ [][NextTwice]_vars

---------------------------------------------------------------------------
(* Properties of the reconciler, stated on the script's own run.           *)

\* the records handed to deduplicate_results, in processing order
InputRefs ==
    mitre_results \o sheet_results

\* the reconciler has returned
Reconciled ==
    pc = "sort" \/ ranked # << >>

\* the keys of a list of references
KeysOf(refs) ==
    { heap[refs[i]]["norm_name"] : i \in 1..Len(refs) }

\* the first reference of refs whose record carries key k
FirstIn(refs, k) ==
    LET idx == { i \in 1..Len(refs) : heap[refs[i]]["norm_name"] = k }
    IN  refs[CHOOSE i \in idx : \A j \in idx : i <= j]

\* the first record, in processing order, that carries key k
FirstWithKey(k) ==
    FirstIn(InputRefs, k)

\* the labels of the sources that produced key k, in processing order
LabelsOf(k) ==
    (IF k \in KeysOf(mitre_results) THEN << LABEL_MITRE >> ELSE << >>)
    \o (IF k \in KeysOf(sheet_results) THEN << SOURCE_SHEET >> ELSE << >>)

\* C1: every output record carries the name, id, url and aliases of the first
\* record seen with its key, structured-feed records first, tabular after
C1_FirstSeenKeepsIdentity ==
    Reconciled =>
        \A i \in 1..Len(final_results) :
            LET e == heap[final_results[i]]
                f == heap[FirstWithKey(e["norm_name"])]
            IN  /\ e["name"] = f["name"]
                /\ e["id"] = f["id"]
                /\ e["url"] = f["url"]
                /\ e["aliases"] = f["aliases"]

\* C2: the output holds exactly one record for each distinct normalized key
\* of the two input lists, so its length is the number of distinct keys
C2_OneRecordPerKey ==
    Reconciled =>
        /\ Len(final_results) = Cardinality(KeysOf(InputRefs))
        /\ KeysOf(final_results) = KeysOf(InputRefs)
        /\ \A i, j \in 1..Len(final_results) :
              heap[final_results[i]]["norm_name"]
                  = heap[final_results[j]]["norm_name"] => i = j
        /\ \A i \in 1..Len(final_results) :
              heap[final_results[i]]["norm_name"]
                  = normalize_name(heap[final_results[i]]["name"])

\* a structured-feed record and a tabular record with different names share a
\* key and came out as one record, next to a record with another key
C2_Witness ==
    /\ pc = "done"
    /\ Len(final_results) >= 2
    /\ \E m \in 1..Len(mitre_results), t \in 1..Len(sheet_results) :
          /\ heap[mitre_results[m]]["norm_name"]
                 = heap[sheet_results[t]]["norm_name"]
          /\ heap[mitre_results[m]]["name"] # heap[sheet_results[t]]["name"]
    /\ Len(final_results) < Len(InputRefs)

\* confirmed_in of every output record is the list of the labels that produced
\* its key, in processing order: non-empty and without a repeated label
ConfirmedInExact ==
    Reconciled =>
        \A i \in 1..Len(final_results) :
            LET e == heap[final_results[i]]
            IN  /\ "confirmed_in" \in DOMAIN e
                /\ e["confirmed_in"] # << >>
                /\ e["confirmed_in"] = LabelsOf(e["norm_name"])

\* "\n[Также найдено в Google Sheet: ", the head of a cross-reference note
NoteHead ==
    << 10, 91, 1058, 1072, 1082, 1078, 1077, 32, 1085, 1072, 1081, 1076,
       1077, 1085, 1086, 32, 1074, 32, 71, 111, 111, 103, 108, 101, 32, 83,
       104, 101, 101, 116, 58, 32 >>

\* where the cross-reference notes of details d begin
NoteStarts(d) ==
    { i \in 1..(Len(d) - Len(NoteHead) + 1) :
        SubSeq(d, i, i + Len(NoteHead) - 1) = NoteHead }

\* details d without its cross-reference notes
TextOf(d) ==
    IF NoteStarts(d) = {} THEN d
    ELSE SubSeq(d, 1, (CHOOSE i \in NoteStarts(d) :
                          \A j \in NoteStarts(d) : i <= j) - 1)

\* a further record with a key already confirmed by its label changes nothing:
\* the output record keeps the text of the first record seen with the key,
\* followed by one note (naming the first tabular record of the key) when
\* both sources confirmed it and by none otherwise, and the source label of
\* its confirmation
RepeatIsNoOp ==
    Reconciled =>
        \A i \in 1..Len(final_results) :
            LET e == heap[final_results[i]]
                k == e["norm_name"]
                f == heap[FirstWithKey(k)]
            IN  /\ TextOf(e["details"]) = TextOf(f["details"])
                /\ IF Len(e["confirmed_in"]) = 2
                   THEN /\ e["details"] =
                              TextOf(e["details"])
                              \o NoteHead
                              \o heap[FirstIn(sheet_results, k)]["url"]
                              \o << 93 >>
                        /\ e["source"] = SOURCE_BOTH
                   ELSE /\ e["details"] = TextOf(e["details"])
                        /\ e["source"] = f["source"]

\* C3: confirmed_in is non-empty, repeats no label and lists exactly the
\* sources that produced the key, in first-confirmation order; a repeated
\* confirmation by a label already present leaves confirmed_in, source and
\* details as they were
C3_ConfirmedInAndNoOp ==
    ConfirmedInExact /\ RepeatIsNoOp

\* C5: neither matcher emits a record whose normalized key is empty, so the
\* reconciler never holds an entry under the empty key
C5_NoEmptyKeyEmitted ==
    /\ \A r \in 1..Len(heap) : heap[r]["norm_name"] # << >>
    /\ Reconciled => << >> \notin KeysOf(final_results)

\* C7: a download that fails gives no record and does not end the script: the
\* next step can be taken, an exception ends the script before the ranking
\* only in a run where no download failed, and once the list is ranked every
\* key a source matched is in it, confirmed by exactly the sources that
\* matched it
C7_FailedSourceDoesNotHideOthers ==
    /\ pc \in {"mitre", "sheets"} => ENABLED (GetMitre \/ ScanTab)
    /\ (pc = "crashed" /\ ranked = << >>) =>
          /\ mitre_status \notin {"exception", "http_error"}
          /\ sheet_failed = 0
    /\ mitre_status \in {"exception", "http_error"} => mitre_results = << >>
    /\ ranked # << >> =>
          /\ Len(ranked) = 1
          /\ \A k \in KeysOf(InputRefs) :
                \E i \in 1..Len(final_results) :
                    /\ heap[final_results[i]]["norm_name"] = k
                    /\ heap[final_results[i]]["confirmed_in"] = LabelsOf(k)

\* the structured feed could not be downloaded, a tab could not either, and
\* the tabs that could still matched
C7_Witness ==
    /\ pc = "done"
    /\ mitre_status \in {"exception", "http_error"}
    /\ mitre_results = << >>
    /\ sheet_results # << >>
    /\ sheet_failed > 0
    /\ \A i \in 1..Len(final_results) :
          heap[final_results[i]]["confirmed_in"] = << SOURCE_SHEET >>

\* C4: a second reconcile-and-rank pass over the same lists gives the records
\* the first pass gave, field by field
C4_SecondPassIdentical ==
    \A n \in 1..Len(ranked) : ranked[n] = ranked[1]

---------------------------------------------------------------------------
(* parse_sheet_tab on its own: any keyword, any data frame.                *)

\* longest cell built from CellAlphabet
MaxCellLen ==
    3

\* 'a' and the space
CellAlphabet ==
    {97, 32}

\* ' Sandworm ', 'oil', 'T1', 'Ab ', 'École'
ExtraCells ==
    { << 32, 83, 97, 110, 100, 119, 111, 114, 109, 32 >>,
      << 111, 105, 108 >>,
      << 84, 49 >>,
      << 65, 98, 32 >>,
      << 201, 99, 111, 108, 101 >> }

Cells ==
    SeqsUpTo(CellAlphabet, MaxCellLen) \cup ExtraCells

\* ["T001", "", "Sandworm", "GRU-linked group"]
ExampleRow ==
    << << 84, 48, 48, 49 >>, << >>,
       << 83, 97, 110, 100, 119, 111, 114, 109 >>,
       << 71, 82, 85, 45, 108, 105, 110, 107, 101, 100, 32, 103, 114, 111,
          117, 112 >> >>

\* ["T1", "", "Sandworm", "GRU-linked group"]
ShortCodeRow ==
    << << 84, 49 >>, << >>,
       << 83, 97, 110, 100, 119, 111, 114, 109 >>,
       << 71, 82, 85, 45, 108, 105, 110, 107, 101, 100, 32, 103, 114, 111,
          117, 112 >> >>

\* rows of two-row data frames: the two above, [' a ', 'a a'], ['oil']
PairRows ==
    { ExampleRow, ShortCodeRow,
      << << 32, 97, 32 >>, << 97, 32, 97 >> >>,
      << << 111, 105, 108 >> >> }

\* a data frame has at least one column
Rows ==
    SeqsUpTo(Cells, MaxCells) \ { << >> }

DataFrames ==
    { << >> }
    \cup { << r >> : r \in Rows \cup PairRows }
    \cup { << r1, r2 >> : r1 \in PairRows, r2 \in PairRows }

\* 'sandworm'
Sandworm ==
    << 115, 97, 110, 100, 119, 111, 114, 109 >>

\* 'A', 'a a', 'energy', 'sandworm', 'é'
SheetKeywords ==
    { << 65 >>, << 97, 32, 97 >>, << 101, 110, 101, 114, 103, 121 >>,
      Sandworm, << 233 >> }

InitSheet ==
    /\ pc = "sheet_call"
    /\ keyword \in SheetKeywords
    /\ df \in DataFrames
    /\ gid_idx = 1
    /\ mitre_status = "none"
    /\ sheet_failed = 0
    /\ mitre_results = << >>
    /\ sheet_results = << >>
    /\ reconciled = << >>
    /\ final_results = << >>
    /\ ranked = << >>
    /\ report = << >>
    /\ heap = << >>
    /\ norm = NoNorm

\* parse_sheet_tab(SHEET_ID, gid, keyword) when the download gives df
ParseSheet ==
    /\ pc = "sheet_call"
    /\ LET resp == [raised |-> FALSE, status_code |-> 200, rows |-> df]
           res  == parse_sheet_tab(SHEET_ID, REGION_GIDS[gid_idx], keyword,
                                   resp)
       IN  /\ sheet_results' = NewRefs(heap, Len(res))
           /\ heap' = heap \o res
    /\ pc' = "sheet_ret"
    /\ UNCHANGED << keyword, gid_idx, mitre_status, sheet_failed,
                    mitre_results, reconciled, final_results, ranked, report,
                    df, norm >>

SpecSheet ==
    InitSheet /\ [][ParseSheet]_vars

\* t is s without its leading and trailing white space
IsTrimOf(t, s) ==
    \E a, b \in 0..Len(s) :
        /\ a + b <= Len(s)
        /\ t = SubSeq(s, a + 1, Len(s) - b)
        /\ \A i \in 1..a : IsSpace(s[i])
        /\ \A i \in (Len(s) - b + 1)..Len(s) : IsSpace(s[i])
        /\ t # << >> => ~IsSpace(t[1]) /\ ~IsSpace(t[Len(t)])
        /\ t = << >> => a + b = Len(s)

\* the trimmed cells of a row that can be a name
NameCells(row) ==
    { j \in 1..Len(row) :
        /\ row[j] # << >>
        /\ \E n \in 3..Len(row[j]) :
              \E a \in 0..(Len(row[j]) - n) :
                  IsTrimOf(SubSeq(row[j], a + 1, a + n), row[j]) }

\* the raw lower-cased term occurs in the lower-cased, space-joined cells
Considered(row) ==
    LET text == Lower(Join(<< 32 >>, row))
        term == Lower(keyword)
    IN  \E a \in 0..Len(text) :
            /\ a + Len(term) <= Len(text)
            /\ \A i \in 1..Len(term) : text[a + i] = term[i]

\* the rows of df that produce a record
Emitting ==
    { i \in 1..Len(df) : Considered(df[i]) /\ NameCells(df[i]) # {} }

\* C8: the rows that produce a record are those whose joined cells contain the
\* raw term and that have a cell of trimmed length above 2; the k-th record
\* carries the trimmed first such cell of the k-th such row
C8_TabularMatchAndName ==
    pc = "sheet_ret" =>
        /\ Len(sheet_results) = Cardinality(Emitting)
        /\ \A i \in Emitting :
              LET k == Cardinality({ j \in Emitting : j <= i })
                  c == CHOOSE j \in NameCells(df[i]) :
                           \A j2 \in NameCells(df[i]) : j <= j2
              IN  /\ heap[sheet_results[k]]["name"].py = "str"
                  /\ IsTrimOf(heap[sheet_results[k]]["name"].s, df[i][c])
                  /\ heap[sheet_results[k]]["source"] = SOURCE_SHEET

\* a row whose first cell is longer than 2 only with its blanks is named by a
\* later cell, trimmed
C8_Witness ==
    /\ pc = "sheet_ret"
    /\ Len(df) = 1
    /\ Len(df[1]) = 2
    /\ Len(df[1][1]) > 2
    /\ Len(sheet_results) = 1
    /\ heap[sheet_results[1]]["name"].s # df[1][1]
    /\ heap[sheet_results[1]]["name"].s # df[1][2]

\* C9 as stated: the row ["T001", "", "Sandworm", "GRU-linked group"] with the
\* term "sandworm" gives display_name "Sandworm" and key 'sandworm'
C9_ExampleGivesSandworm ==
    (pc = "sheet_ret" /\ df = << ExampleRow >> /\ keyword = Sandworm) =>
        /\ Len(sheet_results) = 1
        /\ heap[sheet_results[1]]["name"]
               = PyStr(<< 83, 97, 110, 100, 119, 111, 114, 109 >>)
        /\ heap[sheet_results[1]]["norm_name"] = Sandworm

\* C9 amended: a leading code cell is skipped only when its trimmed length is
\* at most 2.  The example row gives display_name "T001" and key 't001'; the
\* row ["T1", "", "Sandworm", "GRU-linked group"] gives "Sandworm" and
\* 'sandworm'
C9_CodeCellSkippedOnlyIfShort ==
    (pc = "sheet_ret" /\ keyword = Sandworm) =>
        /\ df = << ExampleRow >> =>
              /\ Len(sheet_results) = 1
              /\ heap[sheet_results[1]]["name"] = PyStr(<< 84, 48, 48, 49 >>)
              /\ heap[sheet_results[1]]["norm_name"] = << 116, 48, 48, 49 >>
        /\ df = << ShortCodeRow >> =>
              /\ Len(sheet_results) = 1
              /\ heap[sheet_results[1]]["name"]
                     = PyStr(<< 83, 97, 110, 100, 119, 111, 114, 109 >>)
              /\ heap[sheet_results[1]]["norm_name"] = Sandworm

\* the example row has been matched against "sandworm"
C9_Witness ==
    /\ pc = "sheet_ret"
    /\ df = << ExampleRow >>
    /\ keyword = Sandworm
    /\ Len(sheet_results) = 1

---------------------------------------------------------------------------
(* normalize_name on its own: any name over a small alphabet, and the      *)
(* edits that change only letter case or characters outside a-z, A-Z, 0-9. *)

\* 'A', 'a', '1', '-' and the space
NameAlphabet ==
    {65, 97, 49, 45, 32}

\* characters that are not ASCII letters or digits: '-', the space, and two
\* whose lower-case form holds an ASCII letter, U+212A KELVIN SIGN (lower 'k')
\* and U+0130 (lower 'i' and U+0307)
OtherChars ==
    {45, 32, 8490, 304}

\* a name is given one more character other than ASCII letters and digits
\* only while it holds fewer than this many
MaxOther ==
    1

\* 'APT-28'
ExampleName ==
    << 65, 80, 84, 45, 50, 56 >>

\* an ASCII letter
IsLetter(c) ==
    (c >= 65 /\ c <= 90) \/ (c >= 97 /\ c <= 122)

\* an ASCII letter or digit
IsAlnum(c) ==
    IsLetter(c) \/ (c >= 48 /\ c <= 57)

\* the same letter in the other case
OtherCase(c) ==
    IF c >= 97 THEN c - 32 ELSE c + 32

\* the calls made for a name: normalize_name(name) and
\* normalize_name(normalize_name(name)); first is the key of the original name
Normalized(name, first) ==
    [name  |-> name,
     first |-> first,
     key   |-> normalize_name(PyStr(name)),
     rekey |-> normalize_name(PyStr(normalize_name(PyStr(name))))]

InitNormalize ==
    /\ pc = "norm_call"
    /\ norm \in { [NoNorm EXCEPT !.name = n] :
                    n \in SeqsUpTo(NameAlphabet, MaxNameLen)
                           \cup {ExampleName} }
    /\ keyword = << >>
    /\ gid_idx = 1
    /\ mitre_status = "none"
    /\ sheet_failed = 0
    /\ mitre_results = << >>
    /\ sheet_results = << >>
    /\ reconciled = << >>
    /\ final_results = << >>
    /\ ranked = << >>
    /\ report = << >>
    /\ heap = << >>
    /\ df = << >>

NormUnchanged ==
    UNCHANGED << keyword, gid_idx, mitre_status, sheet_failed, mitre_results,
                 sheet_results, reconciled, final_results, ranked, report,
                 heap, df >>

\* normalize_name is called on the name, and again on its result
NormalizeCall ==
    /\ pc = "norm_call"
    /\ norm' = Normalized(norm.name, normalize_name(PyStr(norm.name)))
    /\ pc' = "norm_ret"
    /\ NormUnchanged

\* name b is name a with its i-th character, an ASCII letter, in the other
\* case
CaseSwapped(a, b, i) ==
    /\ IsLetter(a[i])
    /\ b = [a EXCEPT ![i] = OtherCase(@)]

\* name b is name a without its i-th character
Dropped(a, b, i) ==
    b = SubSeq(a, 1, i - 1) \o SubSeq(a, i + 1, Len(a))

\* name b is name a with c put in after its i-th character
Added(a, b, i, c) ==
    b = SubSeq(a, 1, i) \o << c >> \o SubSeq(a, i + 1, Len(a))

\* how many characters of the name are not ASCII letters or digits
Others(name) ==
    Cardinality({ i \in 1..Len(name) : ~IsAlnum(name[i]) })

\* the name with one ASCII letter in the other case is normalized
SwapCase ==
    /\ pc = "norm_ret"
    /\ \E i \in 1..Len(norm.name) :
          /\ IsLetter(norm.name[i])
          /\ norm' = Normalized([norm.name EXCEPT ![i] = OtherCase(@)],
                                norm.first)
    /\ UNCHANGED pc
    /\ NormUnchanged

\* the name without one of its other characters is normalized
DropOther ==
    /\ pc = "norm_ret"
    /\ \E i \in 1..Len(norm.name) :
          /\ ~IsAlnum(norm.name[i])
          /\ norm' = Normalized(SubSeq(norm.name, 1, i - 1)
                                \o SubSeq(norm.name, i + 1, Len(norm.name)),
                                norm.first)
    /\ UNCHANGED pc
    /\ NormUnchanged

\* the name with one more other character is normalized
AddOther ==
    /\ pc = "norm_ret"
    /\ Others(norm.name) < MaxOther
    /\ \E i \in 0..Len(norm.name) :
          \E c \in OtherChars :
              norm' = Normalized(SubSeq(norm.name, 1, i) \o << c >>
                                 \o SubSeq(norm.name, i + 1, Len(norm.name)),
                                 norm.first)
    /\ UNCHANGED pc
    /\ NormUnchanged

NextNormalize ==
    \/ NormalizeCall
    \/ SwapCase
    \/ DropOther
    \/ AddOther

SpecNormalize ==
    InitNormalize /\ [][NextNormalize]_vars

\* normalizing a key gives the key again, a key holds only a-z and 0-9, and
\* the empty name has the empty key
KeyShape ==
    pc = "norm_ret" =>
        /\ norm.rekey = norm.key
        /\ \A i \in 1..Len(norm.key) :
              \/ (norm.key[i] >= 97 /\ norm.key[i] <= 122)
              \/ (norm.key[i] >= 48 /\ norm.key[i] <= 57)
        /\ norm.name = << >> => norm.key = << >>

\* names a and b differ in the case of one ASCII letter, or in one character
\* of the set S
DifferIn(a, b, S) ==
    \/ /\ Len(b) = Len(a)
       /\ \E i \in 1..Len(a) : CaseSwapped(a, b, i)
    \/ /\ Len(b) = Len(a) - 1
       /\ \E i \in 1..Len(a) : a[i] \in S /\ Dropped(a, b, i)
    \/ /\ Len(b) = Len(a) + 1
       /\ \E i \in 0..Len(a) : b[i + 1] \in S /\ Added(a, b, i, b[i + 1])

\* C10 as stated: normalizing a key gives the key again; a key holds only a-z
\* and 0-9; names that differ in letter case or in characters other than
\* ASCII letters and digits have one key; the empty name has the empty key
C10_NormalizeIdempotentInsensitive ==
    /\ []KeyShape
    /\ [][(pc = "norm_ret" /\ DifferIn(norm.name, norm'.name, OtherChars))
          => norm'.key = norm.key]_vars

\* the characters whose lower-case form holds no a-z and no 0-9
NoKeyChars ==
    { c \in OtherChars :
        \A k \in 1..Len(LowerChar(c)) : ~IsKeyChar(LowerChar(c)[k]) }

\* C10 amended: normalizing a key gives the key again; a key holds only a-z
\* and 0-9; the empty name has the empty key; names that differ in the case
\* of ASCII letters, or in characters whose lower-case form holds no a-z and
\* no 0-9, have one key.  A character outside ASCII whose lower-case form
\* holds an ASCII letter is kept in the key: U+212A gives 'k', U+0130 'i'
C10_InsensitiveUpToLowerForm ==
    /\ []KeyShape
    /\ [][(pc = "norm_ret" /\ DifferIn(norm.name, norm'.name, NoKeyChars))
          => norm'.key = norm.key]_vars
    /\ [](pc = "norm_ret" =>
             \A i \in 1..Len(norm.name) :
                 /\ norm.name[i] = 8490 => InList(107, norm.key)
                 /\ norm.name[i] = 304 => InList(105, norm.key))

\* 'APT-28' has become 'apt 28' and the key is still 'apt28'
C10_Witness ==
    /\ pc = "norm_ret"
    /\ norm.name = << 97, 112, 116, 32, 50, 56 >>
    /\ norm.first = << 97, 112, 116, 50, 56 >>
    /\ norm.key = << 97, 112, 116, 50, 56 >>

---------------------------------------------------------------------------
(* The ranking sort on its own: any list of reconciled records.  A list of *)
(* three labels stands for a record three feeds confirmed.                 *)

\* confirmed_in of one, two and three labels
ConfirmedLists ==
    { << LABEL_MITRE >>, << LABEL_MITRE, SOURCE_SHEET >>,
      << LABEL_MITRE, SOURCE_SHEET, << 84, 104, 105, 114, 100, 32, 70, 101,
                                       101, 100 >> >> }

SourceLabels ==
    { SOURCE_MITRE, SOURCE_SHEET, SOURCE_BOTH }

\* records named 'APT28' that differ in source and confirmed_in
RankRecords ==
    { [source       |-> s,
       name         |-> PyStr(<< 65, 80, 84, 50, 56 >>),
       norm_name    |-> << 97, 112, 116, 50, 56 >>,
       aliases      |-> PyList(<< >>),
       details      |-> << 101, 110, 101, 114, 103, 121 >>,
       id           |-> PyStr(<< 78, 47, 65 >>),
       url          |-> << 35 >>,
       region       |-> << 71, 108, 111, 98, 97, 108 >>,
       confirmed_in |-> c] :
        s \in SourceLabels, c \in ConfirmedLists }

InitRank ==
    /\ pc = "sort"
    /\ heap \in SeqsUpTo(RankRecords, MaxRank)
    /\ final_results = [i \in 1..Len(heap) |-> i]
    /\ reconciled = final_results
    /\ keyword = << >>
    /\ gid_idx = 1
    /\ mitre_status = "none"
    /\ sheet_failed = 0
    /\ mitre_results = << >>
    /\ sheet_results = << >>
    /\ ranked = << >>
    /\ report = << >>
    /\ df = << >>
    /\ norm = NoNorm

\* final_results.sort(key=..., reverse=True) on the list drawn
SortCall ==
    /\ pc = "sort"
    /\ final_results' = ListSortReverse(heap, final_results)
    /\ ranked' = Append(ranked, Snapshot(heap, final_results'))
    /\ pc' = "sorted"
    /\ UNCHANGED << keyword, gid_idx, mitre_status, sheet_failed,
                    mitre_results, sheet_results, reconciled, report, heap,
                    df, norm >>

SpecRank ==
    InitRank /\ [][SortCall]_vars

\* a is before b in the order of Python strings
LexBefore(a, b) ==
    \/ Len(a) < Len(b) /\ SubSeq(b, 1, Len(a)) = a
    \/ \E k \in 1..Len(a) :
          /\ k <= Len(b)
          /\ SubSeq(a, 1, k - 1) = SubSeq(b, 1, k - 1)
          /\ a[k] < b[k]

\* the pair of x is below the pair of y
PairBelow(x, y) ==
    \/ Len(x["confirmed_in"]) < Len(y["confirmed_in"])
    \/ /\ Len(x["confirmed_in"]) = Len(y["confirmed_in"])
       /\ LexBefore(x["source"], y["source"])

\* where reference r stood in the reconciler's output
PlaceOf(r) ==
    CHOOSE i \in 1..Len(reconciled) : reconciled[i] = r

\* C6: the ranked list is the reconciler's list reordered, descending in the
\* pair (size of confirmed_in, source label), records with equal pairs keeping
\* the order the reconciler gave them
C6_RankDescendingStable ==
    ranked # << >> =>
        /\ Len(final_results) = Len(reconciled)
        /\ \A i \in 1..Len(reconciled) :
              \E j \in 1..Len(final_results) : final_results[j] = reconciled[i]
        /\ \A i, j \in 1..Len(final_results) :
              i < j =>
                 /\ ~PairBelow(heap[final_results[i]], heap[final_results[j]])
                 /\ ~PairBelow(heap[final_results[j]], heap[final_results[i]])
                       => PlaceOf(final_results[i]) < PlaceOf(final_results[j])

\* sizes [1, 2, 1, 3] have come out as [3, 2, 1, 1], the two records of size 1
\* in their first order
C6_Witness ==
    /\ pc = "sorted"
    /\ Len(reconciled) = 4
    /\ [i \in 1..4 |-> Len(heap[reconciled[i]]["confirmed_in"])]
           = << 1, 2, 1, 3 >>
    /\ heap[1]["source"] = heap[3]["source"]
    /\ final_results = << 4, 2, 1, 3 >>

=============================================================================
